---- MODULE Spec2Model ----
(***************************************************************************)
(* A model of snowchains' AtCoder service: the HTTP session with its       *)
(* autosaved cookie jar and robots.txt check (src/src/service/session.rs)  *)
(* and the login / register / restore / submit workflows                   *)
(* (src/src/service/atcoder.rs).                                           *)
(*                                                                         *)
(* Strings are sequences of tokens: "/sensitive" is <<"/", "sensitive">>,  *)
(* "https://atcoder/x" is <<"https://", "atcoder", "/", "x">>, the cookie  *)
(* string "sid=v1; Domain=other" is <<"sid", "=", "v1", ";", "Domain",     *)
(* "other">>.  A file is the sequence of cells bincode writes for a        *)
(* Vec<String>: the element count, then the strings.                       *)
(***************************************************************************)
EXTENDS Integers, Sequences, FiniteSets, TLC

VARIABLES
    files,        \* the disk: cookie file path -> NoFile or the file's cells
    lockHolder,   \* the OS advisory lock of each path: 0, or the session holding it
    st,           \* each session slot: "none", "robots" (HttpSession::new running), "ready", "failed"
    base,         \* HttpSession.base of each session
    robots_txts,  \* HttpSession.robots_txts of each session: host -> ruleset, or NoRobots
    jar,          \* HttpSession.jar of each session: NoJar or [path, inner]
    pending,      \* HttpSession::new: the URL the robots.txt loop requests next
    last,         \* the last session operation and what it returned
    closedWith,   \* per path: the record set held by the last session closed on it
    fresh,        \* per session: TRUE from open until its first cookie-store mutation
    pc,           \* workflow: the request the workflow sends next, or "idle"/"done"
    stack,        \* workflow: labels to return to (callers of the running procedure)
    wf,           \* workflow: the invocation's inputs and local variables
    log,          \* workflow: the HTTP exchanges executed so far, in order
    result        \* workflow: "running", "Ok" or the error returned to the caller

vars == <<files, lockHolder, st, base, robots_txts, jar, pending, last,
          closedWith, fresh, pc, stack, wf, log, result>>

sessVars == <<files, lockHolder, st, base, robots_txts, jar, pending, last,
              closedWith, fresh>>

wfVars == <<pc, stack, wf, log, result>>

-----------------------------------------------------------------------------
(* Bounds of the model *)

\* the number of interactive login attempts a run may make
MaxAttempts == 2

\* the largest number of rows on one submissions page
MaxRows == 2

\* the largest page count a submissions listing may announce
MaxPages == 2

-----------------------------------------------------------------------------
(* Values *)

Sess == {1, 2}
Paths == {"cookies"}
NoPath == "NoPath"
NoDomain == "NoDomain"
NoPort == "NoPort"

HostNames == {"atcoder", "other"}
Schemes == {"http://", "https://"}
PortTokens == {"2000"}

\* UrlBase values: none, the service's, and the one of tests::it_works
NoBase == [present |-> FALSE, host |-> "atcoder", https |-> FALSE, port |-> NoPort]
BaseAtcoder == [present |-> TRUE, host |-> "atcoder", https |-> TRUE, port |-> NoPort]
BaseLocal == [present |-> TRUE, host |-> "other", https |-> FALSE, port |-> "2000"]

\* a robots.txt body: the Disallow prefixes of the section chosen for USER_AGENT
AllowAll == {}
DisallowSensitive == {<<"/", "sensitive">>}
Rulesets == {AllowAll, DisallowSensitive}

NoRobots == [h \in HostNames |-> [cached |-> FALSE, rules |-> {}]]

\* Set-Cookie strings a server sends
SidV1 == <<"sid", "=", "v1">>
SidV2 == <<"sid", "=", "v2", ";", "Domain", "other">>
SidV1Padded == <<" ", "sid", "=", "v1">>
FooV1 == <<"foo", "=", "v1">>
Junk == <<"junk">>
CookieNames == {"sid", "foo"}

\* the absent file, an existing file, the absent jar
NoFile == [exists |-> FALSE, cells |-> <<>>]
File(cells) == [exists |-> TRUE, cells |-> cells]
NoJar == [present |-> FALSE, path |-> NoPath, inner |-> {}]

IsPrefix(p, s) == Len(p) <= Len(s) /\ SubSeq(s, 1, Len(p)) = p

DropHead(s, n) == SubSeq(s, n + 1, Len(s))

Range(f) == {f[i] : i \in DOMAIN f}

\* every enumeration of a finite set as a sequence without repeats
Orders(S) ==
    {f \in [1..Cardinality(S) -> S] : \A i, j \in 1..Cardinality(S) : f[i] = f[j] => i = j}

\* the index of the first element of s equal to x, or 0
IndexOf(s, x) ==
    IF \E i \in 1..Len(s) : s[i] = x
    THEN CHOOSE i \in 1..Len(s) : s[i] = x /\ \A j \in 1..(i - 1) : s[j] # x
    ELSE 0

-----------------------------------------------------------------------------
(* cookie::Cookie and cookie::CookieJar, bincode *)

\* Cookie::parse: surrounding whitespace is trimmed; a string without '=' or
\* with an empty name is an error.
CookieParse(str) ==
    LET s == IF Len(str) > 0 /\ str[1] = " " THEN Tail(str) ELSE str IN
    IF Len(s) >= 3 /\ s[2] = "=" /\ s[1] # ""
    THEN [ok |-> TRUE,
          cookie |-> [name |-> s[1], value |-> s[3],
                      domain |-> IF Len(s) >= 6 /\ s[4] = ";" /\ s[5] = "Domain"
                                 THEN s[6] ELSE NoDomain]]
    ELSE [ok |-> FALSE, cookie |-> [name |-> "", value |-> "", domain |-> NoDomain]]

\* a to_string that writes the name and the value only
CookieToStringNameValue(c) == <<c.name, "=", c.value>>

\* ToString::to_string of a Cookie
CookieToString(c) ==
    <<c.name, "=", c.value>> \o
    (IF c.domain # NoDomain THEN <<";", "Domain", c.domain>> ELSE <<>>)

\* CookieJar::add: the jar holds one cookie per name, the one added replaces
JarAdd(inner, c) == {x \in inner : x.name # c.name} \cup {c}

\* the cookies of a jar in the order CookieJar::iter yields them; the jar is a
\* hash set, so the order is one the build picks: ord, an order of the names
JarIter(inner, ord) ==
    LET present == SelectSeq(ord, LAMBDA n : \E c \in inner : c.name = n)
    IN [i \in 1..Len(present) |-> CHOOSE c \in inner : c.name = present[i]]

\* bincode::serialize of a Vec<String>: the length, then the strings
Count(n) == [i \in 1..n |-> "#"]

BincodeSerialize(strs) == <<Count(Len(strs))>> \o strs

\* bincode::deserialize::<Vec<String>>: cells after the value are ignored
BincodeDeserialize(cells) ==
    IF Len(cells) >= 1 /\ Range(cells[1]) \subseteq {"#"} /\ Len(cells) >= 1 + Len(cells[1])
    THEN [ok |-> TRUE, strs |-> SubSeq(cells, 2, 1 + Len(cells[1]))]
    ELSE [ok |-> FALSE, strs |-> <<>>]

\* the cells save() can write for a record set, one per iteration order
Serializations(inner) ==
    {BincodeSerialize([i \in 1..Cardinality(inner) |-> CookieToString(JarIter(inner, o)[i])]) :
        o \in Orders(CookieNames)}

-----------------------------------------------------------------------------
(* AutosavedCookieJar *)

IoOutcomes == {"ok", "fail", "fail_truncated"}

\* a save that seeks to 0 and writes, without set_len(0)
saveWithoutTruncate(j, f, io, ord) ==
    LET strs == [i \in 1..Cardinality(j.inner) |-> CookieToString(JarIter(j.inner, ord)[i])]
        value == BincodeSerialize(strs)
    IN CASE io = "ok" -> [err |-> "Ok", jar |-> j,
                          file |-> File(value \o DropHead(f.cells, Len(value)))]
         [] OTHER -> [err |-> "FileIo", jar |-> j, file |-> f]

\* AutosavedCookieJar::save: seek to 0, truncate to 0, write the whole value.
\* io: the write succeeds, fails before the file is touched, or fails after
\* set_len(0).
save(j, f, io, ord) ==
    LET strs == [i \in 1..Cardinality(j.inner) |-> CookieToString(JarIter(j.inner, ord)[i])]
        value == BincodeSerialize(strs)
    IN CASE io = "ok" -> [err |-> "Ok", jar |-> j, file |-> File(value)]
         [] io = "fail" -> [err |-> "FileIo", jar |-> j, file |-> f]
         [] OTHER -> [err |-> "FileIo", jar |-> j, file |-> File(<<>>)]

\* the loop of update: parse each Set-Cookie string and add it; the first
\* string that does not parse ends the loop with the error
RECURSIVE AddAll(_, _)
AddAll(inner, strs) ==
    IF strs = <<>> THEN [ok |-> TRUE, inner |-> inner]
    ELSE LET p == CookieParse(Head(strs)) IN
         IF ~p.ok THEN [ok |-> FALSE, inner |-> inner]
         ELSE AddAll(JarAdd(inner, p.cookie), Tail(strs))

\* AutosavedCookieJar::update: with a Set-Cookie header, add its cookies and save
update(j, f, setcookie, io, ord) ==
    IF ~setcookie.present THEN [err |-> "Ok", jar |-> j, file |-> f]
    ELSE LET a == AddAll(j.inner, setcookie.values)
             j2 == [j EXCEPT !.inner = a.inner]
         IN IF ~a.ok THEN [err |-> "ParseCookieFromUrl", jar |-> j2, file |-> f]
            ELSE save(j2, f, io, ord)

\* AutosavedCookieJar::insert_cookie
insert_cookie(j, f, c, io, ord) == save([j EXCEPT !.inner = JarAdd(j.inner, c)], f, io, ord)

\* HttpSession::clear_cookies, for a session that has a jar
clear_cookies(j, f, io, ord) == save([j EXCEPT !.inner = {}], f, io, ord)

\* HttpSession::has_cookie
has_cookie(j) == j.present /\ j.inner # {}

\* AutosavedCookieJar::to_header: every cookie of the jar, as name and value
to_header(j) == {<<c.name, c.value>> : c \in j.inner}

\* util::fs::create_and_lock: creates the file when missing and takes the
\* exclusive lock without waiting; a path locked by another holder is an error
create_and_lock(f, holder, s) ==
    IF holder # 0
    THEN [ok |-> FALSE, file |-> f, holder |-> holder]
    ELSE [ok |-> TRUE, file |-> IF f.exists THEN f ELSE File(<<>>), holder |-> s]

\* the cookies of a file's strings, parsed and added in order
RECURSIVE ParseAll(_, _)
ParseAll(inner, strs) ==
    IF strs = <<>> THEN [ok |-> TRUE, inner |-> inner]
    ELSE LET p == CookieParse(Head(strs)) IN
         IF ~p.ok THEN [ok |-> FALSE, inner |-> inner]
         ELSE ParseAll(JarAdd(inner, p.cookie), Tail(strs))

\* a new that goes on when create_and_lock reports the path locked
AutosavedCookieJar_newIgnoringLock(p, f, holder, s, io) ==
    [err |-> "Ok", jar |-> [present |-> TRUE, path |-> p, inner |-> {}],
     file |-> IF f.exists THEN f ELSE File(BincodeSerialize(<<>>)), holder |-> s]

\* AutosavedCookieJar::new on path p by session s.  io: the read (of an
\* existing file) or the write (of a new one) succeeds or fails.
\* Result: err, the jar, the file and the lock holder afterwards; on an
\* error the File is dropped, which releases a lock taken here.
AutosavedCookieJar_new(p, f, holder, s, io) ==
    LET exists == f.exists
        l == create_and_lock(f, holder, s)
        fail(e, file) == [err |-> e, jar |-> NoJar, file |-> file, holder |-> holder]
    IN IF ~l.ok THEN fail("Locked", f)
       ELSE IF exists
       THEN IF io # "ok" THEN fail("FileIo", l.file)
            ELSE IF l.file.cells = <<>>
            THEN [err |-> "Ok", jar |-> [present |-> TRUE, path |-> p, inner |-> {}],
                  file |-> l.file, holder |-> l.holder]
            ELSE LET d == BincodeDeserialize(l.file.cells)
                     a == ParseAll({}, d.strs)
                 IN IF ~d.ok THEN fail("FileIo", l.file)
                    ELSE IF ~a.ok THEN fail("ParseCookieFromPath", l.file)
                    ELSE [err |-> "Ok", jar |-> [present |-> TRUE, path |-> p, inner |-> a.inner],
                          file |-> l.file, holder |-> l.holder]
       ELSE IF io # "ok" THEN fail("FileIo", l.file)
            ELSE [err |-> "Ok", jar |-> [present |-> TRUE, path |-> p, inner |-> {}],
                  file |-> File(BincodeSerialize(<<>>)), holder |-> l.holder]

-----------------------------------------------------------------------------
(* Url::parse, UrlBase::with, HttpSession *)

BadUrl == [ok |-> FALSE, scheme |-> "", host |-> "", port |-> NoPort, path |-> <<>>, query |-> <<>>]

\* Url::parse: scheme, host, optional port, then a path starting with '/'
\* (an empty path is "/") and an optional query after '?'
UrlParse(str) ==
    IF Len(str) >= 2 /\ str[1] \in Schemes /\ str[2] \in HostNames
    THEN LET hasPort == Len(str) >= 4 /\ str[3] = ":" /\ str[4] \in PortTokens
             rest == DropHead(str, IF hasPort THEN 4 ELSE 2)
             q == IndexOf(rest, "?")
             pth == IF q = 0 THEN rest ELSE SubSeq(rest, 1, q - 1)
         IN IF rest # <<>> /\ rest[1] # "/" /\ rest[1] # "?" THEN BadUrl
            ELSE [ok |-> TRUE, scheme |-> str[1], host |-> str[2],
                  port |-> IF hasPort THEN str[4] ELSE NoPort,
                  path |-> IF pth = <<>> THEN <<"/">> ELSE pth,
                  query |-> IF q = 0 THEN <<>> ELSE DropHead(rest, q)]
    ELSE BadUrl

\* a with that puts http(s)://host[:port] in front of every string
UrlBase_with_every(b, str) ==
    UrlParse(<<IF b.https THEN "https://" ELSE "http://", b.host>> \o
             (IF b.port # NoPort THEN <<":", b.port>> ELSE <<>>) \o str)

\* UrlBase::with: a string starting with '/' gets http(s)://host[:port] in front
UrlBase_with(b, str) ==
    IF Len(str) > 0 /\ str[1] = "/"
    THEN UrlParse(<<IF b.https THEN "https://" ELSE "http://", b.host>> \o
                  (IF b.port # NoPort THEN <<":", b.port>> ELSE <<>>) \o str)
    ELSE UrlParse(str)

\* HttpSession::resolve_url
resolve_url(b, str) == IF b.present THEN UrlBase_with(b, str) ELSE UrlParse(str)

\* SimpleMatcher::check_path over the rules of the chosen section
check_path(rules, path) == ~ \E r \in rules : IsPrefix(r, path)

\* a check that looks the ruleset up under the base host's scheme-less name
\* only when the path is the root
assertOnlyRoot(rob, u) ==
    rob[u.host].cached => (u.path # <<"/">> \/ check_path(rob[u.host].rules, u.path))

\* HttpSession::assert_not_forbidden_by_robots_txt: TRUE when the request may go on
assert_not_forbidden_by_robots_txt(rob, u) ==
    rob[u.host].cached => check_path(rob[u.host].rules, u.path)

\* a gate that takes an empty expected set to accept nothing
filter_by_status_contains(status, acceptable) ==
    IF status \in acceptable THEN "Ok" ELSE "UnexpectedStatusCode"

\* ResponseExt::filter_by_status
filter_by_status(status, acceptable) ==
    IF acceptable = {} \/ status \in acceptable THEN "Ok" ELSE "UnexpectedStatusCode"

\* SessionError::UnexpectedStatusCode(expected, actual)
NoError == [raised |-> FALSE, expected |-> {}, actual |-> 0]
UnexpectedStatusCode(expected, actual) ==
    [raised |-> TRUE, expected |-> expected, actual |-> actual]

\* HttpSession::get, HttpSession::post and Request::acceptable: the request
\* value a caller builds before it sends
get(url) == [url |-> url, method |-> "GET", acceptable |-> {200}]
post(url) == [url |-> url, method |-> "POST", acceptable |-> {302}]
Request_acceptable(req, statuses) == [req EXCEPT !.acceptable = statuses]

\* What a send returned and did.  executed: client.execute was called.
SendResult(res, executed, status, u, j, f, hdr) ==
    [result |-> res, executed |-> executed, status |-> status, url |-> u,
     jar |-> j, file |-> f, cookies |-> hdr]

\* a send that validates the status before it looks at Set-Cookie
sendValidatingFirst(b, rob, j, f, url, acceptable, net, io, ord) ==
    LET u == resolve_url(b, url)
        hdr == IF j.present THEN to_header(j) ELSE {}
    IN IF ~u.ok THEN SendResult("ParseUrl", FALSE, 0, u, j, f, {})
       ELSE IF ~assert_not_forbidden_by_robots_txt(rob, u)
       THEN SendResult("ForbiddenByRobotsTxt", FALSE, 0, u, j, f, {})
       ELSE IF net.err THEN SendResult("Transport", TRUE, 0, u, j, f, hdr)
       ELSE IF filter_by_status(net.status, acceptable) # "Ok"
       THEN SendResult(filter_by_status(net.status, acceptable), TRUE, net.status, u, j, f, hdr)
       ELSE LET up == IF j.present THEN update(j, f, net.setcookie, io, ord)
                      ELSE [err |-> "Ok", jar |-> j, file |-> f]
            IN SendResult(up.err, TRUE, net.status, u, up.jar, up.file, hdr)

\* HttpSession::request and Request::send, on a session with base b, robots
\* cache rob and jar j whose file is f.  net: the transport's answer, io and
\* ord: the outcome of the cookie file's write and the jar's iteration order.
send(b, rob, j, f, url, acceptable, net, io, ord) ==
    LET u == resolve_url(b, url)
        hdr == IF j.present THEN to_header(j) ELSE {}
    IN IF ~u.ok THEN SendResult("ParseUrl", FALSE, 0, u, j, f, {})
       ELSE IF ~assert_not_forbidden_by_robots_txt(rob, u)
       THEN SendResult("ForbiddenByRobotsTxt", FALSE, 0, u, j, f, {})
       ELSE IF net.err THEN SendResult("Transport", TRUE, 0, u, j, f, hdr)
       ELSE LET up == IF j.present THEN update(j, f, net.setcookie, io, ord)
                      ELSE [err |-> "Ok", jar |-> j, file |-> f]
            IN IF up.err # "Ok"
               THEN SendResult(up.err, TRUE, net.status, u, up.jar, up.file, hdr)
               ELSE SendResult(filter_by_status(net.status, acceptable), TRUE,
                               net.status, u, up.jar, up.file, hdr)

\* the errors that leave the cookie store unusable for the rest of the run
CookieStoreErrors == {"FileIo", "ParseCookieFromUrl", "ParseCookieFromPath"}

-----------------------------------------------------------------------------
(* What the network and the disk may answer *)

NoSetCookie == [present |-> FALSE, values |-> <<>>]
SetCookie(strs) == [present |-> TRUE, values |-> strs]
NoLocation == [present |-> FALSE, value |-> <<>>]
Location(str) == [present |-> TRUE, value |-> str]
Body(rules) == [readable |-> TRUE, rules |-> rules]
UnreadableBody == [readable |-> FALSE, rules |-> {}]

TransportError ==
    [err |-> TRUE, status |-> 0, setcookie |-> NoSetCookie, location |-> NoLocation,
     body |-> UnreadableBody]

Response(status, sc, loc, body) ==
    [err |-> FALSE, status |-> status, setcookie |-> sc, location |-> loc, body |-> body]

-----------------------------------------------------------------------------
(* AtcoderContest, ContestDuration and the documents the workflows read *)

DigitChar == <<"0", "1", "2", "3", "4", "5", "6", "7", "8", "9">>

\* the decimal digits of n
RECURSIVE Decimal(_)
Decimal(n) ==
    IF n < 10 THEN <<DigitChar[n + 1]>>
    ELSE Append(Decimal(n \div 10), DigitChar[(n % 10) + 1])

\* format!("{:>03}", n): the decimal digits, zero-padded to three
Pad3(n) ==
    LET d == Decimal(n)
    IN IF Len(d) >= 3 THEN d ELSE [i \in 1..(3 - Len(d)) |-> "0"] \o d

\* enum AtcoderContest
Practice == [variant |-> "Practice", number |-> 0, name |-> <<>>]
Apg4b == [variant |-> "Apg4b", number |-> 0, name |-> <<>>]
Numbered(variant, n) == [variant |-> variant, number |-> n, name |-> <<>>]
Abc(n) == Numbered("Abc", n)
Other(s) == [variant |-> "Other", number |-> 0, name |-> s]

\* #[derive(Display)] of AtcoderContest
Display(contest) ==
    CASE contest.variant = "Practice" -> <<"practice contest">>
      [] contest.variant = "Apg4b" -> <<"AtCoder Programming Guide for beginners">>
      [] contest.variant = "Arc" -> <<"ARC">> \o Pad3(contest.number)
      [] contest.variant = "Abc" -> <<"ABC">> \o Pad3(contest.number)
      [] contest.variant = "Agc" -> <<"AGC">> \o Pad3(contest.number)
      [] contest.variant = "Atc" -> <<"ATC">> \o Pad3(contest.number)
      [] contest.variant = "Apc" -> <<"APC">> \o Pad3(contest.number)
      [] contest.variant = "ChokudaiS" -> <<"Chokudai SpeedRun ">> \o Pad3(contest.number)
      [] contest.variant = "Other" -> contest.name

\* the characters of the contest names: [a-zA-Z_], \d (any decimal digit of
\* Unicode, 0x0663 being one that is not ASCII) and \s
LowerCase == <<"a", "b", "c", "d", "g", "h", "i", "k", "o", "p", "r", "s", "t", "u", "x">>
UpperCase == <<"A", "B", "C", "D", "G", "H", "I", "K", "O", "P", "R", "S", "T", "U", "X">>
NameChars == Range(LowerCase) \cup Range(UpperCase) \cup {"_"}
AsciiDigits == Range(DigitChar)
DecimalDigits == AsciiDigits \cup {"0x0663"}
WhiteSpace == {" ", "0x0A"}

\* the characters of the texts of samples: ASCII ones, of which those
\* char::is_ascii_whitespace holds for, and others
AsciiWhiteSpace == {" ", "0x0A", "0x09", "0x0D"}
AsciiChars == AsciiDigits \cup AsciiWhiteSpace \cup {"a", "-"}

\* str::to_lowercase
to_lowercase(s) ==
    [i \in 1..Len(s) |->
        IF s[i] \in Range(UpperCase) THEN LowerCase[IndexOf(UpperCase, s[i])] ELSE s[i]]

\* str::parse::<u32> of three characters, unwrap_or(0)
parse_u32_or_0(ds) ==
    IF \A i \in 1..Len(ds) : ds[i] \in AsciiDigits
    THEN (IndexOf(DigitChar, ds[1]) - 1) * 100 + (IndexOf(DigitChar, ds[2]) - 1) * 10
         + (IndexOf(DigitChar, ds[3]) - 1)
    ELSE 0

\* the captures of \A\s*([a-zA-Z_]+)(\d{3})\s*\z in s
NAME_captures(s) ==
    LET lead == CHOOSE k \in 0..Len(s) :
                    /\ \A i \in 1..k : s[i] \in WhiteSpace
                    /\ (k < Len(s) => s[k + 1] \notin WhiteSpace)
        trail == CHOOSE k \in 0..Len(s) :
                    /\ \A i \in (Len(s) - k + 1)..Len(s) : s[i] \in WhiteSpace
                    /\ (k < Len(s) => s[Len(s) - k] \notin WhiteSpace)
        last3 == Len(s) - trail
        matched == /\ last3 - lead >= 4
                   /\ \A i \in (last3 - 2)..last3 : s[i] \in DecimalDigits
                   /\ \A i \in (lead + 1)..(last3 - 3) : s[i] \in NameChars
    IN IF matched
       THEN [matched |-> TRUE, name |-> SubSeq(s, lead + 1, last3 - 3),
             number |-> SubSeq(s, last3 - 2, last3)]
       ELSE [matched |-> FALSE, name |-> <<>>, number |-> <<>>]

\* the names AtcoderContest::new recognizes, in lower case, and their variants
RecognizedNames ==
    {<<<<"a", "b", "c">>, "Abc">>, <<<<"a", "r", "c">>, "Arc">>, <<<<"a", "g", "c">>, "Agc">>,
     <<<<"a", "t", "c">>, "Atc">>, <<<<"a", "p", "c">>, "Apc">>,
     <<<<"c", "h", "o", "k", "u", "d", "a", "i", "_", "s">>, "ChokudaiS">>,
     <<<<"c", "h", "o", "k", "u", "d", "a", "i", "s">>, "ChokudaiS">>}

NamePractice == <<"p", "r", "a", "c", "t", "i", "c", "e">>
NameApg4b == <<"a", "p", "g", "4", "b">>

\* the end of AtcoderContest::new: the two fixed names, else the fallback
AtcoderContest_fixed(s) ==
    IF s = NamePractice THEN Practice
    ELSE IF s = NameApg4b THEN Apg4b
    ELSE Other(s)

\* a parser that compares the captured name as it was written
AtcoderContest_new_case_sensitive(s) ==
    LET caps == NAME_captures(s)
    IN IF caps.matched /\ \E r \in RecognizedNames : r[1] = caps.name
       THEN Numbered((CHOOSE r \in RecognizedNames : r[1] = caps.name)[2],
                     parse_u32_or_0(caps.number))
       ELSE AtcoderContest_fixed(s)

\* AtcoderContest::new
AtcoderContest_new(s) ==
    LET caps == NAME_captures(s)
        name == to_lowercase(caps.name)
    IN IF caps.matched /\ \E r \in RecognizedNames : r[1] = name
       THEN Numbered((CHOOSE r \in RecognizedNames : r[1] = name)[2],
                     parse_u32_or_0(caps.number))
       ELSE AtcoderContest_fixed(s)

\* AtcoderContest::url_top
url_top(contest) ==
    <<"/", "contests", "/">> \o
    (CASE contest.variant = "Practice" -> <<"practice">>
       [] contest.variant = "Apg4b" -> <<"apg4b">>
       [] contest.variant = "Abc" -> <<"abc">> \o Pad3(contest.number)
       [] contest.variant = "Arc" -> <<"arc">> \o Pad3(contest.number)
       [] contest.variant = "Agc" -> <<"agc">> \o Pad3(contest.number)
       [] contest.variant = "Atc" -> <<"atc">> \o Pad3(contest.number)
       [] contest.variant = "Apc" -> <<"apc">> \o Pad3(contest.number)
       [] contest.variant = "ChokudaiS" -> <<"chokudai_s">> \o Pad3(contest.number)
       [] contest.variant = "Other" -> contest.name)

url_tasks(contest) == url_top(contest) \o <<"/", "tasks">>
url_register(contest) == url_top(contest) \o <<"/", "register">>
url_submit(contest) == url_top(contest) \o <<"/", "submit">>
url_submissions_me(contest, page) ==
    url_top(contest) \o <<"/", "submissions", "/", "me", "?", "page", "=">> \o Decimal(page)

\* the instants of the model's clock
Times == 0..3

NoDuration == [present |-> FALSE, start |-> 0, end |-> 0]
ContestDuration(t1, t2) == [present |-> TRUE, start |-> t1, end |-> t2]

\* enum ContestStatus; NotBegun carries the contest's name and the start time
\* in the local time zone
Finished == [variant |-> "Finished", name |-> <<>>, at |-> 0, zone |-> "none"]
Active == [variant |-> "Active", name |-> <<>>, at |-> 0, zone |-> "none"]
NotBegun(s, t) == [variant |-> "NotBegun", name |-> s, at |-> t, zone |-> "Local"]

\* no ContestStatus was computed
NoStatus == [variant |-> "none", name |-> <<>>, at |-> 0, zone |-> "none"]

\* a status whose bounds are exclusive
check_current_status_exclusive(d, contest_name, now) ==
    IF now <= d.start THEN NotBegun(contest_name, d.start)
    ELSE IF now >= d.end THEN Finished
    ELSE Active

\* ContestDuration::check_current_status when Utc::now() returns now
check_current_status(d, contest_name, now) ==
    IF now < d.start THEN NotBegun(contest_name, d.start)
    ELSE IF now > d.end THEN Finished
    ELSE Active

\* a row of the tasks table: the link's text and its href
Task(name, url) == [name |-> name, url |-> url]

\* struct Submission
Submission(task_name, task_screen_name, lang_name, detail_url, is_ac) ==
    [task_name |-> task_name, task_screen_name |-> task_screen_name,
     lang_name |-> lang_name, detail_url |-> detail_url, is_ac |-> is_ac]

\* a Document by what the extractors find in it: the two <time> elements,
\* the rows of the tasks table, the rows of
\* the submissions table (wellFormed: every row has the cells
\* extract_submissions looks for) and the pagination's <li> count
Document(duration, tasks, wellFormed, submissions, num_pages) ==
    [duration |-> duration, tasks |-> tasks,
     wellFormed |-> wellFormed, submissions |-> submissions, num_pages |-> num_pages]

EmptyDocument == Document(NoDuration, <<>>, TRUE, <<>>, 0)

\* Extract::extract_contest_duration: not present is the ScrapeError
extract_contest_duration(doc) == doc.duration

\* Extract::extract_task_urls_with_names: no row is the ScrapeError
extract_task_urls_with_names(doc) ==
    [err |-> IF doc.tasks = <<>> THEN "Scrape" ELSE "Ok", tasks |-> doc.tasks]

\* Extract::extract_submissions
extract_submissions(doc) ==
    IF doc.wellFormed
    THEN [err |-> "Ok", submissions |-> doc.submissions, num_pages |-> doc.num_pages]
    ELSE [err |-> "Scrape", submissions |-> <<>>, num_pages |-> 0]

\* the path segments [a-z0-9_\-]+ and, among them, the segments [a-z0-9_]+
ContestSegments == {"abc", "practice", "abc100_a", "abc100_b", "abc100-a"}
ScreenNameSegments == {"abc100_a", "abc100_b"}

NoCapture == [matched |-> FALSE, name |-> ""]

\* submit's SCREEN_NAME: \A/contests/[a-z0-9_\-]+/tasks/([a-z0-9_]+)/?\z
\* A contest segment is one token or a name token followed by digit tokens.
SCREEN_NAME(url) ==
    LET t == IndexOf(url, "tasks")
        n == Len(url)
    IN IF /\ t >= 6
          /\ SubSeq(url, 1, 3) = <<"/", "contests", "/">>
          /\ url[4] \in ContestSegments
          /\ \A i \in 5..(t - 2) : url[i] \in Range(DigitChar)
          /\ url[t - 1] = "/"
          /\ n >= t + 2
          /\ url[t + 1] = "/"
          /\ url[t + 2] \in ScreenNameSegments
          /\ (n = t + 2 \/ (n = t + 3 /\ url[n] = "/"))
       THEN [matched |-> TRUE, name |-> url[t + 2]]
       ELSE NoCapture

\* the index of the first task named problem, or 0
FirstNamed(tasks, problem) ==
    IF \E i \in 1..Len(tasks) : tasks[i].name = problem
    THEN CHOOSE i \in 1..Len(tasks) :
            tasks[i].name = problem /\ \A j \in 1..(i - 1) : tasks[j].name # problem
    ELSE 0

\* an any() that looks at the first submission only
first_is_accepted(submissions, task_screen_name) ==
    /\ submissions # <<>>
    /\ submissions[1].task_screen_name = task_screen_name
    /\ submissions[1].is_ac

\* submissions.any(|s| s.task_screen_name == task_screen_name && s.is_ac)
any_accepted(submissions, task_screen_name) ==
    \E i \in 1..Len(submissions) :
        submissions[i].task_screen_name = task_screen_name /\ submissions[i].is_ac

IsSuffix(p, s) == Len(p) <= Len(s) /\ SubSeq(s, Len(s) - Len(p) + 1, Len(s)) = p

\* the tokens HeaderValue::to_str refuses: not visible ASCII
NotVisibleAscii == {"0xE9"}

\* HeaderValue::to_str
to_str(value) == [err |-> \E i \in 1..Len(value) : value[i] \in NotVisibleAscii, str |-> value]

\* a test that looks at the start of the location only
location_starts_as_redirect(location) == IsPrefix(<<"/", "contests", "/">>, location)

\* location.starts_with("/contests/") && location.ends_with("/submissions/me")
location_is_redirect_to_submissions(location) ==
    /\ IsPrefix(<<"/", "contests", "/">>, location)
    /\ IsSuffix(<<"/", "submissions", "/", "me">>, location)

NoRejection == [lang_id |-> "", len |-> 0, status |-> 0, location |-> NoLocation]

\* ServiceErrorKind::SubmissionRejected(lang_id, source_code.len(), status, location)
SubmissionRejected(lang_id, len, status, location) ==
    [lang_id |-> lang_id, len |-> len, status |-> status, location |-> location]

-----------------------------------------------------------------------------------------------------------------------------------------------------
(* The session layer: HttpSession values opened, used and dropped *)

RobotsTxt == <<"/", "robots.txt">>

\* the URLs the robots.txt loop may be redirected to
RobotsLocations ==
    {RobotsTxt, <<"https://", "other", "/", "robots.txt">>, <<"robots.txt">>}

\* the URL strings callers request
RequestUrls ==
    {<<"/", "public">>, <<"/", "sensitive">>, <<"/", "sensitive", "/", "x">>,
     <<"https://", "atcoder", "/", "sensitive">>, <<"http://", "other", ":", "2000", "/", "sensitive">>,
     <<"public">>}

\* the Set-Cookie headers of the responses
SetCookieHeaders ==
    {NoSetCookie, SetCookie(<<SidV1>>), SetCookie(<<SidV2>>), SetCookie(<<SidV1Padded>>),
     SetCookie(<<Junk>>), SetCookie(<<FooV1, SidV1>>), SetCookie(<<SidV1, Junk>>)}

\* the acceptable-status sets callers pass
AcceptableSets == {{200}, {404}, {}}

\* the cookies insert_cookie is called with
InsertedCookies ==
    {[name |-> "sid", value |-> "v1", domain |-> NoDomain],
     [name |-> "foo", value |-> "v1", domain |-> NoDomain]}

NoLast ==
    [op |-> "none", s |-> 0, path |-> NoPath, result |-> "Ok", executed |-> FALSE,
     resolved |-> FALSE, disallowed |-> FALSE, held |-> FALSE, existed |-> FALSE, io |-> "ok",
     method |-> "none", widened |-> FALSE, acceptable |-> {}, exchanges |-> 0,
     answered |-> FALSE, status |-> 0, error |-> NoError, setcookie |-> NoSetCookie,
     host |-> "", cookies |-> {}, arm |-> "none", cause |-> "none"]

NoClosed == [known |-> FALSE, inner |-> {}]

\* the file of a jar: a session without a jar touches no file
FileOf(j) == IF j.present THEN files[j.path] ELSE NoFile

\* the disk after a session with jar j left cells f in its file
FilesAfter(j, f) == IF j.present THEN [files EXCEPT ![j.path] = f] ELSE files

\* the resolved path of url is disallowed by the ruleset session s caches for its host
Disallowed(s, url) ==
    LET u == resolve_url(base[s], url)
    IN u.ok /\ robots_txts[s][u.host].cached /\ ~check_path(robots_txts[s][u.host].rules, u.path)

\* the io outcomes and iteration orders that matter for a write of these cookies
IoFor(j, sc, ios) == IF j.present /\ sc.present THEN ios ELSE {"ok"}
OrdersFor(j, sc) ==
    IF j.present /\ sc.present /\ Len(sc.values) + Cardinality(j.inner) >= 2
    THEN Orders(CookieNames)
    ELSE {CHOOSE o \in Orders(CookieNames) : TRUE}

\* the record set a path was closed with is known until the file is written again
ClosedAfter(j, mutated) ==
    IF j.present /\ mutated THEN [closedWith EXCEPT ![j.path] = NoClosed] ELSE closedWith

NoSessions ==
    /\ files = [p \in Paths |-> NoFile]
    /\ lockHolder = [p \in Paths |-> 0]
    /\ st = [s \in Sess |-> "none"]
    /\ base = [s \in Sess |-> NoBase]
    /\ robots_txts = [s \in Sess |-> NoRobots]
    /\ jar = [s \in Sess |-> NoJar]
    /\ pending = [s \in Sess |-> <<>>]
    /\ last = NoLast
    /\ closedWith = [p \in Paths |-> NoClosed]
    /\ fresh = [s \in Sess |-> FALSE]

\* the inputs and local variables of a workflow invocation
NoWf ==
    [kind |-> "none",
     credentials |-> "None",   \* UserNameAndPassword: "Some" or "None"
     hadCookie |-> FALSE,      \* has_cookie() when login_if_not was entered
     entered |-> FALSE,        \* login_if_not was entered
     probe0 |-> 0,             \* the status of login_if_not's own probe, 0: not made
     lastProbe |-> 0,          \* the status answered to the most recent probe of /settings
     check |-> 0,              \* the status answered to try_logging_in's latest probe
     attempts |-> 0,           \* calls of try_logging_in
     cleared |-> 0,            \* calls of clear_cookies
     login_returned |-> FALSE, \* login_if_not returned Ok(())
     top |-> 0,                \* the status the contest's top page answered, 0: no answer
     phase |-> "none",         \* the ContestStatus register_if_active_or_explicit computed
     reg_returned |-> FALSE,   \* register_if_active_or_explicit returned Ok(())
     contest |-> Practice,     \* the contest of the invocation
     problem |-> "",           \* SubmitProps.problem
     skip_checking_if_accepted |-> FALSE,
     lang_id |-> "",           \* SubmitProps.lang_id
     duration |-> NoDuration,  \* submit: the ContestDuration extracted from the tasks page
     status |-> NoStatus,      \* submit: the ContestStatus computed from it
     decided |-> FALSE,        \* submit computed checks_if_accepted and found the task
     checks_if_accepted |-> FALSE,
     task_screen_name |-> "",
     task_url |-> <<>>,
     listing |-> <<>>,         \* the pages the server lists the user's submissions on
     page |-> 0,               \* the page of the listing requested next
     num_pages |-> 0,          \* the page count read on page 1
     extracted |-> 0,          \* the pages of the listing extracted so far
     source_len |-> 0,         \* source_code.len()
     post |-> [answered |-> FALSE, status |-> 0, location |-> NoLocation],
     rejected |-> NoRejection, \* the fields of the SubmissionRejected error
     problems |-> [present |-> FALSE, names |-> <<>>], \* the problems of DownloadProps, RestoreProps
     src_paths |-> {},         \* the language ids RestoreProps.src_paths has a path for
     options |-> {},           \* the language options of the first page
     submissions |-> <<>>,     \* the submissions of the page extracted last
     detail_urls |-> <<>>,     \* restore's detail_urls: (task name, language name) -> URL
     todo |-> {},              \* the keys of detail_urls the loop has yet to visit
     saved |-> 0,              \* the files restore wrote
     ignored |-> 0,            \* the entries ignored for want of a source path
     results |-> <<>>,         \* restore's results: the keys whose code was written
     warnings |-> <<>>,        \* the keys of restore's "Ignoring" lines
     summary |-> [present |-> FALSE, count |-> 0],  \* the "Saved N files." line
     input |-> <<>>,           \* the arguments of a function applied on its own
     output |-> <<>>,          \* what it returned
     tasks |-> <<>>,           \* download: the tasks of the tasks page
     next |-> 0,               \* download: the task filter and map come to next
     outputs |-> <<>>,         \* download: the (url, name, suite) collected
     written |-> <<>>,         \* the names (download) and the keys (restore) whose file
                               \* was written, in order
     not_found |-> <<>>,       \* download: the vector not_found
     reported |-> [present |-> FALSE, names |-> <<>>],  \* the "Not found:" line
     open_browser |-> FALSE,   \* DownloadProps.open_browser
     opened |-> <<>>]          \* the URLs handed to open_in_browser

NoWorkflow ==
    /\ pc = "idle"
    /\ stack = <<>>
    /\ wf = NoWf
    /\ log = <<>>
    /\ result = "none"

\* the session value is dropped: its File is closed, which releases the lock
DropSession(s, j, clean) ==
    /\ st' = [st EXCEPT ![s] = "none"]
    /\ jar' = [jar EXCEPT ![s] = NoJar]
    /\ base' = [base EXCEPT ![s] = NoBase]
    /\ robots_txts' = [robots_txts EXCEPT ![s] = NoRobots]
    /\ pending' = [pending EXCEPT ![s] = <<>>]
    /\ fresh' = [fresh EXCEPT ![s] = FALSE]
    /\ lockHolder' = IF j.present THEN [lockHolder EXCEPT ![j.path] = 0] ELSE lockHolder
    /\ closedWith' = IF j.present
                     THEN [closedWith EXCEPT ![j.path] = IF clean THEN [known |-> TRUE, inner |-> j.inner]
                                                         ELSE NoClosed]
                     ELSE closedWith

\* HttpSession::new up to the robots.txt loop: open the jar, build the session.
\* bases, paths: the arguments the callers of this specification pass.
New(s, bases, paths) ==
    /\ st[s] = "none"
    /\ \E b \in bases, p \in paths, io \in {"ok", "fail"} :
        LET r == IF p = NoPath
                 THEN [err |-> "Ok", jar |-> NoJar, file |-> NoFile, holder |-> 0]
                 ELSE AutosavedCookieJar_new(p, files[p], lockHolder[p], s, io)
            l == [NoLast EXCEPT !.op = "new", !.s = s, !.path = p, !.io = io,
                                !.held = (p # NoPath /\ lockHolder[p] # 0),
                                !.existed = (p # NoPath /\ files[p].exists)]
        IN /\ (p = NoPath => io = "ok")
           /\ files' = IF p = NoPath THEN files ELSE [files EXCEPT ![p] = r.file]
           /\ IF r.err # "Ok"
              THEN /\ last' = [l EXCEPT !.result = "Start", !.cause = r.err]
                   /\ UNCHANGED <<lockHolder, st, base, robots_txts, jar, pending, closedWith, fresh>>
              ELSE /\ last' = l
                   /\ lockHolder' = IF p = NoPath THEN lockHolder ELSE [lockHolder EXCEPT ![p] = r.holder]
                   /\ jar' = [jar EXCEPT ![s] = r.jar]
                   /\ base' = [base EXCEPT ![s] = b]
                   /\ st' = [st EXCEPT ![s] = IF b.present THEN "robots" ELSE "ready"]
                   /\ pending' = [pending EXCEPT ![s] = IF b.present THEN RobotsTxt ELSE <<>>]
                   /\ fresh' = [fresh EXCEPT ![s] = r.jar.present]
                   /\ UNCHANGED <<robots_txts, closedWith>>
    /\ UNCHANGED wfVars

\* the redirects a server answers for /robots.txt before its chain ends
MaxRedirects == 2

\* a construction whose sends accept every status
RobotsAcceptableAny == {}

\* HttpSession::new: .acceptable(&[200, 301, 302, 404]) of both sends
RobotsAcceptable == {200, 301, 302, 404}

\* a final match that takes every status for a ruleset
final_match_any(status) ==
    IF status \in {200, 404} THEN "insert" ELSE "unreachable"

\* HttpSession::new: the arm `match res.status().as_u16()` takes after the loop
final_match(status) ==
    IF status = 200 THEN "insert" ELSE IF status = 404 THEN "nothing" ELSE "unreachable"

\* the requests HttpSession::new of session s has issued so far
RobotsRequests(s) == IF last.op = "robots" /\ last.s = s THEN last.exchanges ELSE 0

\* HttpSession::new, one pass of the robots.txt loop: request the pending URL
\* accepting 200, 301, 302 and 404; follow a redirect's Location or return
\* without one; on any other status go through the final match, which caches
\* a 200's body.  The server's chain has at most MaxRedirects redirects.
RobotsStep(s, headers, ios) ==
    /\ st[s] = "robots"
    /\ \E status \in {200, 301, 302, 404, 500}, sc \in headers,
          loc \in {NoLocation} \cup {Location(u) : u \in RobotsLocations},
          bd \in {UnreadableBody} \cup {Body(r) : r \in Rulesets}, err \in BOOLEAN :
        \E io \in IoFor(jar[s], sc, ios), ord \in OrdersFor(jar[s], sc) :
        \E net \in {IF err THEN TransportError ELSE Response(status, sc, loc, bd)} :
        \E r \in {send(base[s], robots_txts[s], jar[s], FileOf(jar[s]), pending[s],
                        RobotsAcceptable, net, io, ord)} :
        LET redirect == r.status \in {301, 302}
            arm == IF r.result # "Ok" \/ redirect THEN "none" ELSE final_match(r.status)
            l == [NoLast EXCEPT !.op = "robots", !.s = s, !.result = r.result, !.io = io,
                                !.executed = r.executed, !.resolved = r.url.ok,
                                !.disallowed = Disallowed(s, pending[s]),
                                !.exchanges = RobotsRequests(s) + (IF r.executed THEN 1 ELSE 0),
                                !.answered = (r.executed /\ ~net.err),
                                !.status = r.status,
                                !.arm = arm]
            failed == r.result # "Ok" \/ (arm = "insert" /\ ~net.body.readable)
            mutated == r.executed /\ ~net.err /\ sc.present
        IN /\ (err => status = 200 /\ sc = NoSetCookie /\ loc = NoLocation /\ bd = UnreadableBody)
           /\ (status \notin {301, 302} => loc = NoLocation)
           /\ (status # 200 => bd = UnreadableBody)
           /\ ((status \in {301, 302} /\ loc.present) => RobotsRequests(s) < MaxRedirects)
           /\ files' = FilesAfter(jar[s], r.file)
           /\ IF arm = "unreachable"
              THEN /\ last' = [l EXCEPT !.result = "Panic"]
                   /\ DropSession(s, r.jar, FALSE)
              ELSE IF failed
              THEN /\ last' = [l EXCEPT !.result = "Start",
                                             !.cause = IF r.result # "Ok" THEN r.result ELSE "ReadBody"]
                   /\ DropSession(s, r.jar, r.result \notin CookieStoreErrors)
              ELSE /\ last' = l
                   /\ jar' = [jar EXCEPT ![s] = r.jar]
                   /\ fresh' = [fresh EXCEPT ![s] = fresh[s] /\ ~mutated]
                   /\ closedWith' = ClosedAfter(jar[s], mutated)
                   /\ st' = [st EXCEPT ![s] = IF redirect /\ net.location.present THEN "robots" ELSE "ready"]
                   /\ pending' = [pending EXCEPT ![s] = IF redirect /\ net.location.present
                                                         THEN net.location.value ELSE <<>>]
                   /\ robots_txts' = [robots_txts EXCEPT ![s] =
                          IF arm = "insert"
                          THEN [robots_txts[s] EXCEPT ![base[s].host] = [cached |-> TRUE, rules |-> net.body.rules]]
                          ELSE robots_txts[s]]
                   /\ UNCHANGED <<lockHolder, base>>
    /\ UNCHANGED wfVars

\* HttpSession::get / post followed by Request::send
Request(s, urls, methods, accs, statuses, headers, ios) ==
    /\ st[s] = "ready"
    /\ \E url \in urls, status \in statuses, sc \in headers, err \in BOOLEAN :
        \E req \in {r \in {get(url), post(url)} : r.method \in methods}
                        \cup {Request_acceptable(get(url), a) : a \in accs},
           io \in IoFor(jar[s], sc, ios), ord \in OrdersFor(jar[s], sc) :
        \E net \in {IF err THEN TransportError ELSE Response(status, sc, NoLocation, UnreadableBody)} :
        \E r \in {send(base[s], robots_txts[s], jar[s], FileOf(jar[s]), url, req.acceptable, net, io, ord)} :
        LET mutated == r.executed /\ ~net.err /\ sc.present
        IN /\ (err => status = 200 /\ sc = NoSetCookie)
           /\ files' = FilesAfter(jar[s], r.file)
           /\ jar' = [jar EXCEPT ![s] = r.jar]
           /\ st' = [st EXCEPT ![s] = IF r.result \in CookieStoreErrors THEN "failed" ELSE "ready"]
           /\ fresh' = [fresh EXCEPT ![s] = fresh[s] /\ ~mutated]
           /\ closedWith' = ClosedAfter(jar[s], mutated)
           /\ last' = [NoLast EXCEPT !.op = "request", !.s = s, !.result = r.result, !.io = io,
                                     !.executed = r.executed, !.resolved = r.url.ok,
                                     !.disallowed = Disallowed(s, url),
                                     !.method = req.method,
                                     !.widened = (req \notin {get(url), post(url)}),
                                     !.acceptable = req.acceptable,
                                     !.exchanges = IF r.executed THEN 1 ELSE 0,
                                     !.answered = (r.executed /\ ~net.err),
                                     !.status = r.status,
                                     !.setcookie = IF r.executed /\ ~net.err THEN sc ELSE NoSetCookie,
                                     !.host = r.url.host,
                                     !.cookies = r.cookies,
                                     !.error = IF r.result = "UnexpectedStatusCode"
                                               THEN UnexpectedStatusCode(req.acceptable, r.status)
                                               ELSE NoError]
    /\ UNCHANGED <<lockHolder, base, robots_txts, pending>>
    /\ UNCHANGED wfVars

\* HttpSession::insert_cookie
InsertCookie(s) ==
    /\ st[s] = "ready"
    /\ \E c \in InsertedCookies, io \in IoOutcomes, ord \in Orders(CookieNames) :
        LET r == IF jar[s].present THEN insert_cookie(jar[s], files[jar[s].path], c, io, ord)
                 ELSE [err |-> "Ok", jar |-> jar[s], file |-> NoFile]
        IN /\ (~jar[s].present => io = "ok")
           /\ files' = FilesAfter(jar[s], r.file)
           /\ jar' = [jar EXCEPT ![s] = r.jar]
           /\ st' = [st EXCEPT ![s] = IF r.err # "Ok" THEN "failed" ELSE "ready"]
           /\ fresh' = [fresh EXCEPT ![s] = FALSE]
           /\ closedWith' = ClosedAfter(jar[s], TRUE)
           /\ last' = [NoLast EXCEPT !.op = "insert_cookie", !.s = s, !.result = r.err, !.io = io]
    /\ UNCHANGED <<lockHolder, base, robots_txts, pending>>
    /\ UNCHANGED wfVars

\* HttpSession::clear_cookies
ClearCookies(s) ==
    /\ st[s] = "ready"
    /\ \E io \in IoOutcomes :
        LET ord == CHOOSE o \in Orders(CookieNames) : TRUE
            r == IF jar[s].present THEN clear_cookies(jar[s], files[jar[s].path], io, ord)
                 ELSE [err |-> "Ok", jar |-> jar[s], file |-> NoFile]
        IN /\ (~jar[s].present => io = "ok")
           /\ files' = FilesAfter(jar[s], r.file)
           /\ jar' = [jar EXCEPT ![s] = r.jar]
           /\ st' = [st EXCEPT ![s] = IF r.err # "Ok" THEN "failed" ELSE "ready"]
           /\ fresh' = [fresh EXCEPT ![s] = FALSE]
           /\ closedWith' = ClosedAfter(jar[s], TRUE)
           /\ last' = [NoLast EXCEPT !.op = "clear_cookies", !.s = s, !.result = r.err, !.io = io]
    /\ UNCHANGED <<lockHolder, base, robots_txts, pending>>
    /\ UNCHANGED wfVars

\* the session goes out of scope
Drop(s) ==
    /\ st[s] \in {"ready", "failed"}
    /\ DropSession(s, jar[s], st[s] = "ready")
    /\ last' = [NoLast EXCEPT !.op = "drop", !.s = s, !.path = jar[s].path]
    /\ UNCHANGED files
    /\ UNCHANGED wfVars

-----------------------------------------------------------------------------
(* SpecSession: one session with a base host: robots.txt, URL resolution,   *)
(* status filtering.                                                        *)

InitSession == NoSessions /\ NoWorkflow

NextSession ==
    \/ New(1, {NoBase, BaseLocal}, Paths \cup {NoPath})
    \/ RobotsStep(1, {NoSetCookie, SetCookie(<<SidV1>>)}, {"ok"})
    \/ Request(1, RequestUrls, {"GET", "POST"}, AcceptableSets, {200, 302, 404},
               {NoSetCookie, SetCookie(<<SidV1>>), SetCookie(<<Junk>>)}, {"ok"})
    \/ Drop(1)

SpecSession == InitSession /\ [][NextSession]_vars

-----------------------------------------------------------------------------
(* SpecConstruction: sessions constructed and dropped, with every answer of *)
(* the server to the requests for robots.txt.                               *)

\* the Set-Cookie headers of the answers to the construction's requests
ConstructionHeaders == {NoSetCookie, SetCookie(<<SidV1>>), SetCookie(<<Junk>>)}

NextConstruction ==
    \/ New(1, {NoBase, BaseLocal, BaseAtcoder}, Paths \cup {NoPath})
    \/ RobotsStep(1, ConstructionHeaders, IoOutcomes)
    \/ Drop(1)

\* HttpSession::new is one sequential loop: a construction that has begun goes
\* on with its next request
SpecConstruction ==
    InitSession /\ [][NextConstruction]_vars
                /\ WF_vars(RobotsStep(1, ConstructionHeaders, IoOutcomes))

-----------------------------------------------------------------------------
(* SpecCookies: the cookie store, opened by two processes on one path       *)

CookieUrls == {<<"https://", "atcoder", "/", "public">>, <<"public">>}

NextCookies ==
    \E s \in Sess :
        \/ New(s, {NoBase}, Paths \cup {NoPath})
        \/ Request(s, CookieUrls, {"GET"}, {}, {200, 404}, SetCookieHeaders, IoOutcomes)
        \/ InsertCookie(s)
        \/ ClearCookies(s)
        \/ Drop(s)

SpecCookies == InitSession /\ [][NextCookies]_vars

-----------------------------------------------------------------------------
(* The workflows of atcoder.rs, run on session 1.  pc names the request the  *)
(* workflow sends next; an action is that request, its response and the code *)
(* up to the next request.  Writes to the terminal are taken to succeed.     *)

CookiePath == "cookies"
SidCookie == [name |-> "sid", value |-> "v1", domain |-> NoDomain]
Ord0 == CHOOSE o \in Orders(CookieNames) : TRUE

UrlSettings == <<"/", "settings">>
UrlLogin == <<"/", "login">>

\* the Set-Cookie headers and disk outcomes of the workflows' exchanges
WfHeaders == {NoSetCookie, SetCookie(<<SidV1>>)}
WfIos == {"ok", "fail"}

\* the answers to a request: a transport error, or a status with cookies
Answers(statuses) ==
    {TransportError} \cup
    {Response(s, sc, NoLocation, UnreadableBody) : s \in statuses, sc \in WfHeaders}

\* Request::send on the workflow's session
wfSend(url, acceptable, net, io) ==
    send(base[1], robots_txts[1], jar[1], FileOf(jar[1]), url, acceptable, net, io, Ord0)

\* Request::status: send, then the response's status
wfStatus(url, acceptable, net, io) == wfSend(url, acceptable, net, io)

\* what last keeps of the send of a request of method that returned r
Sent(r, method) ==
    [NoLast EXCEPT !.op = "send", !.s = 1, !.method = method, !.result = r.result,
                   !.executed = r.executed, !.status = r.status]

\* the session and the log after the exchange r of method and url; last
\* keeps what the send returned
Exchanged(r, method, url) ==
    /\ files' = FilesAfter(jar[1], r.file)
    /\ jar' = [jar EXCEPT ![1] = r.jar]
    /\ log' = IF r.executed THEN Append(log, <<method, url>>) ELSE log
    /\ last' = Sent(r, method)
    /\ UNCHANGED <<lockHolder, st, base, robots_txts, pending, closedWith, fresh>>

\* a return that is taken for Ok only, the step being tried again otherwise
FinishWhenOk(res) ==
    /\ pc' = IF res = "Ok" THEN "done" ELSE pc
    /\ result' = res
    /\ stack' = stack

\* the workflow returns res to its caller
Finish(res) ==
    /\ pc' = "done"
    /\ result' = res
    /\ stack' = <<>>

\* a session as Atcoder::try_new leaves it: base host set, jar opened on the
\* cookie file with the record set inner, robots.txt fetched
StartedSession(inner, rob) ==
    /\ files = [p \in Paths |->
                 IF p = CookiePath THEN save([present |-> TRUE, path |-> p, inner |-> inner], NoFile, "ok", Ord0).file
                 ELSE NoFile]
    /\ lockHolder = [p \in Paths |-> IF p = CookiePath THEN 1 ELSE 0]
    /\ st = [s \in Sess |-> IF s = 1 THEN "ready" ELSE "none"]
    /\ base = [s \in Sess |-> IF s = 1 THEN BaseAtcoder ELSE NoBase]
    /\ robots_txts = [s \in Sess |-> IF s = 1 THEN rob ELSE NoRobots]
    /\ jar = [s \in Sess |-> IF s = 1 THEN [present |-> TRUE, path |-> CookiePath, inner |-> inner] ELSE NoJar]
    /\ pending = [s \in Sess |-> <<>>]
    /\ last = NoLast
    /\ closedWith = [p \in Paths |-> NoClosed]
    /\ fresh = [s \in Sess |-> FALSE]

Cached(rules) == [NoRobots EXCEPT !["atcoder"] = [cached |-> TRUE, rules |-> rules]]

\* the count of the entries of the log equal to e
RECURSIVE CountOf(_, _)
CountOf(s, e) ==
    IF s = <<>> THEN 0 ELSE (IF Head(s) = e THEN 1 ELSE 0) + CountOf(Tail(s), e)

-----------------------------------------------------------------------------
(* Atcoder::login_if_not and Atcoder::try_logging_in *)

\* an entry that skips the probe
login_if_not_without_probe(j) == "login.get"

\* the entry of login_if_not: with a cookie the probe comes first
login_if_not(j) == IF has_cookie(j) THEN "login.probe" ELSE "login.get"

\* wf when login_if_not is entered
EnterLogin(w, j) == [w EXCEPT !.hadCookie = has_cookie(j), !.entered = TRUE]

\* login_if_not returns Ok(()) to the caller named on the stack
ReturnFromLogin ==
    IF Head(stack) = "login"
    THEN Finish("Ok")
    ELSE /\ pc' = "reg.token"
         /\ stack' = Tail(stack)
         /\ result' = result

\* login_if_not: GET /settings accepting 200 and 302; 200: already logged in
LoginProbe ==
    /\ pc = "login.probe"
    /\ \E net \in Answers({200, 302, 404}) : \E io \in IoFor(jar[1], net.setcookie, WfIos) :
       \E r \in {wfStatus(UrlSettings, {200, 302}, net, io)} :
           /\ Exchanged(r, "GET", UrlSettings)
           /\ IF r.result # "Ok"
              THEN Finish(r.result) /\ wf' = [wf EXCEPT !.lastProbe = r.status]
              ELSE /\ wf' = [wf EXCEPT !.probe0 = r.status, !.lastProbe = r.status,
                                         !.login_returned = (r.status = 200)]
                   /\ IF r.status = 200
                      THEN ReturnFromLogin
                      ELSE pc' = "login.get" /\ UNCHANGED <<stack, result>>

\* try_logging_in: GET /login, extract the CSRF token, take the credentials
\* (prompting for them when none were supplied)
LoginGet ==
    /\ pc = "login.get"
    /\ wf.attempts < MaxAttempts
    /\ \E net \in Answers({200, 404}) : \E io \in IoFor(jar[1], net.setcookie, WfIos) :
       \E r \in {wfSend(UrlLogin, {200}, net, io)} :
       \E page \in IF r.result = "Ok" THEN {"token", "no_token", "unreadable"} ELSE {"token"} :
       \E promptOk \in IF r.result = "Ok" /\ page = "token" /\ wf.credentials = "None"
                       THEN BOOLEAN ELSE {TRUE} :
           /\ Exchanged(r, "GET", UrlLogin)
           /\ wf' = [wf EXCEPT !.attempts = @ + 1]
           /\ IF r.result # "Ok" THEN Finish(r.result)
              ELSE IF page = "unreadable" THEN Finish("Transport")
              ELSE IF page = "no_token" THEN Finish("Scrape")
              ELSE IF ~promptOk THEN Finish("Io")
              ELSE pc' = "login.post" /\ UNCHANGED <<stack, result>>

\* try_logging_in: POST /login with the form, accepting 302
LoginPost ==
    /\ pc = "login.post"
    /\ \E net \in Answers({302, 200}) : \E io \in IoFor(jar[1], net.setcookie, WfIos) :
       \E r \in {wfSend(UrlLogin, {302}, net, io)} :
           /\ Exchanged(r, "POST", UrlLogin)
           /\ wf' = wf
           /\ IF r.result # "Ok" THEN Finish(r.result)
              ELSE pc' = "login.check" /\ UNCHANGED <<stack, result>>

\* a loop body that tries again without clear_cookies
LoginRetryWithoutClear(w, r, clearIo) ==
    /\ files' = FilesAfter(r.jar, r.file)
    /\ jar' = [jar EXCEPT ![1] = r.jar]
    /\ log' = Append(log, <<"GET", UrlSettings>>)
    /\ wf' = w
    /\ pc' = "login.get" /\ UNCHANGED <<stack, result>>

\* a loop body that waits after clear_cookies instead of trying again
LoginRetryWaiting(w, r, clearIo) ==
    /\ files' = FilesAfter(r.jar, clear_cookies(r.jar, r.file, clearIo, Ord0).file)
    /\ jar' = [jar EXCEPT ![1] = clear_cookies(r.jar, r.file, clearIo, Ord0).jar]
    /\ log' = Append(Append(log, <<"GET", UrlSettings>>), <<"CLEAR", <<>>>>)
    /\ wf' = [w EXCEPT !.cleared = @ + 1]
    /\ IF clear_cookies(r.jar, r.file, clearIo, Ord0).err # "Ok"
       THEN Finish(clear_cookies(r.jar, r.file, clearIo, Ord0).err)
       ELSE pc' = "login.wait" /\ UNCHANGED <<stack, result>>

\* the body of login_if_not's loop after try_logging_in returned Ok(false):
\* clear_cookies, then try again
LoginRetry(w, r, clearIo) ==
    LET c == clear_cookies(r.jar, r.file, clearIo, Ord0)
    IN /\ files' = FilesAfter(r.jar, c.file)
       /\ jar' = [jar EXCEPT ![1] = c.jar]
       /\ log' = Append(Append(log, <<"GET", UrlSettings>>), <<"CLEAR", <<>>>>)
       /\ wf' = [w EXCEPT !.cleared = @ + 1]
       /\ IF c.err # "Ok" THEN Finish(c.err)
          ELSE pc' = "login.get" /\ UNCHANGED <<stack, result>>

\* a try_logging_in that returns Ok(false) whatever the credentials
try_logging_in_never_raises(status, credentials) ==
    IF status = 200 THEN "true" ELSE "false"

\* the end of try_logging_in: Ok(true) on 200; else Err(LoginOnTest) when the
\* credentials were supplied, Ok(false) when they are prompted for
try_logging_in_result(status, credentials) ==
    IF status = 200 THEN "true"
    ELSE IF credentials = "Some" THEN "LoginOnTest"
    ELSE "false"

\* try_logging_in: GET /settings accepting 200 and 302, then its result;
\* on Ok(false) login_if_not clears the cookies and tries again
LoginCheck ==
    /\ pc = "login.check"
    /\ \E net \in Answers({200, 302, 404}) : \E io \in IoFor(jar[1], net.setcookie, WfIos) :
       \E r \in {wfStatus(UrlSettings, {200, 302}, net, io)} :
       \E res \in {try_logging_in_result(r.status, wf.credentials)} :
       \E clearIo \in IF r.result = "Ok" /\ res = "false" THEN WfIos ELSE {"ok"} :
        LET w == [wf EXCEPT !.lastProbe = r.status, !.check = r.status,
                            !.login_returned = (r.result = "Ok" /\ res = "true")]
            retry == r.result = "Ok" /\ res = "false"
        IN /\ UNCHANGED <<lockHolder, st, base, robots_txts, pending, closedWith, fresh>>
           /\ last' = Sent(r, "GET")
           /\ IF retry THEN LoginRetry(w, r, clearIo)
              ELSE /\ files' = FilesAfter(jar[1], r.file)
                   /\ jar' = [jar EXCEPT ![1] = r.jar]
                   /\ log' = IF r.executed THEN Append(log, <<"GET", UrlSettings>>) ELSE log
                   /\ wf' = w
                   /\ IF r.result # "Ok" THEN Finish(r.result)
                      ELSE IF res = "true" THEN ReturnFromLogin
                      ELSE Finish(res)

-----------------------------------------------------------------------------
(* SpecLogin: the login command *)

InitLogin ==
    /\ \E inner \in {{}, {SidCookie}}, rob \in {NoRobots, Cached({UrlLogin})} :
        /\ StartedSession(inner, rob)
        /\ \E cr \in {"Some", "None"} :
            wf = EnterLogin([NoWf EXCEPT !.kind = "login", !.credentials = cr],
                            [present |-> TRUE, path |-> CookiePath, inner |-> inner])
        /\ pc = login_if_not([present |-> TRUE, path |-> CookiePath, inner |-> inner])
    /\ stack = <<"login">>
    /\ log = <<>>
    /\ result = "running"

NextLogin == LoginProbe \/ LoginGet \/ LoginPost \/ LoginCheck

SpecLogin == InitLogin /\ [][NextLogin]_vars

\* the login command carried on: the process takes its next step as long as
\* it has one, the user answering every prompt
SpecLoginLive == InitLogin /\ [][NextLogin]_vars /\ WF_vars(NextLogin)

-----------------------------------------------------------------------------
(* Atcoder::register_if_active_or_explicit and Atcoder::fetch_tasks_page *)

\* the answers to a request of a workflow past login: no Set-Cookie
Answers0(statuses) ==
    {TransportError} \cup
    {Response(s, NoSetCookie, NoLocation, UnreadableBody) : s \in statuses}

\* the contest pages: the top page and the tasks page carry the duration
Durations == {NoDuration, ContestDuration(1, 2)}

TaskUrlA == <<"/", "contests", "/", "abc", "1", "0", "0", "/", "tasks", "/", "abc100_a">>
TaskUrlB == <<"/", "contests", "/", "abc", "1", "0", "0", "/", "tasks", "/", "abc100_b">>
TaskUrlHyphen == <<"/", "contests", "/", "abc", "1", "0", "0", "/", "tasks", "/", "abc100-a">>

TaskLists ==
    {<<>>,
     <<Task("A", TaskUrlA)>>,
     <<Task("B", TaskUrlB), Task("A", TaskUrlA \o <<"/">>)>>,
     <<Task("A", TaskUrlHyphen), Task("A", TaskUrlA)>>,
     <<Task("B", TaskUrlB)>>}

TopPages == {Document(d, <<>>, TRUE, <<>>, 0) : d \in Durations}
TasksPages == {Document(d, t, TRUE, <<>>, 0) : d \in Durations, t \in TaskLists}

\* the rows of the submissions pages of the duplicate check: a page without
\* and a page with an accepted submission of task A
RowsWithout ==
    <<Submission("A", "abc100_a", "Rust", <<"/", "d1">>, FALSE),
      Submission("B", "abc100_b", "Rust", <<"/", "d2">>, TRUE)>>
RowsWith ==
    <<Submission("B", "abc100_b", "Rust", <<"/", "d2">>, TRUE),
      Submission("A", "abc100_a", "Rust", <<"/", "d3">>, TRUE)>>

ListingPage(wellFormed, rows, n) == Document(NoDuration, <<>>, wellFormed, rows, n)

\* the page count the pagination of every page after the first announces
LaterCount == MaxPages + 1

\* what the server lists as the user's submissions: the accepted submission
\* on page k (0: nowhere), page m malformed (0: none), the pagination of
\* page 1 announcing n pages and that of the other pages LaterCount
Listing(k, n, m) ==
    [i \in 1..LaterCount |->
        IF i = m THEN ListingPage(FALSE, <<>>, 0)
        ELSE ListingPage(TRUE, IF i = k THEN RowsWith ELSE RowsWithout,
                         IF i = 1 THEN n ELSE LaterCount)]

\* a page count that follows the pagination of every page
num_pages_of_latest(page, num_pages, found) == found

\* the num_pages of the loops over the listing: the count extracted from
\* page 1, the count of every other page being dropped
num_pages_of_first(page, num_pages, found) == IF page = 1 THEN found ELSE num_pages

SubmitListings ==
    {Listing(k, n, 0) : k \in 0..MaxPages, n \in 0..MaxPages} \cup {Listing(0, 0, 1)}

NoListing == <<>>

\* the source file: unreadable, or of some length
NoSource == [ok |-> FALSE, len |-> 0]
SourceFiles == {NoSource, [ok |-> TRUE, len |-> 5]}

\* register_if_active_or_explicit returns Ok(()) to the caller named on the stack
ReturnFromRegister ==
    IF Head(stack) = "participate"
    THEN Finish("Ok")
    ELSE /\ pc' = "tasks.second"
         /\ stack' = Tail(stack)
         /\ result' = result

\* a gate that lets an explicit registration past a top page answering 302
contest_not_found_unless_explicit(status, explicit) == status = 302 /\ ~explicit

\* register_if_active_or_explicit: res.status() == StatusCode::FOUND
contest_not_found(status, explicit) == status = 302

\* a status that never raises
raise_never(status) == FALSE

\* ContestStatus::raise_if_not_begun, called unless explicit
raise_if_not_begun(status) == status = "NotBegun"

\* a condition that registers in an active contest only
registers_if_active(explicit, contest, status) == status = "Active"

\* register_if_active_or_explicit: the condition of login and the form
registers(explicit, contest, status) ==
    explicit \/ contest = Practice \/ status = "Active"

\* register_if_active_or_explicit: GET the contest's top page accepting 200
\* and 302, the contest's status, then login_if_not when registering
RegTop ==
    /\ pc = "reg.top"
    /\ \E net \in Answers0({200, 302, 404}), url \in {url_top(wf.contest)} :
       \E r \in {wfSend(url, {200, 302}, net, "ok")} :
       \E readable \in IF r.result = "Ok" /\ r.status = 200 THEN BOOLEAN ELSE {TRUE} :
       \E doc \in IF r.result = "Ok" /\ r.status = 200 /\ readable THEN TopPages ELSE {EmptyDocument} :
       \E d \in {extract_contest_duration(doc)} :
       \E now \in IF d.present THEN Times ELSE {0} :
       \E explicit \in {wf.kind = "participate"}, status \in {check_current_status(d, Display(wf.contest), now).variant} :
       \E w \in {[wf EXCEPT !.top = r.status]} :
           /\ Exchanged(r, "GET", url)
           /\ IF r.result # "Ok" THEN Finish(r.result) /\ wf' = w
              ELSE IF contest_not_found(r.status, explicit)
              THEN Finish("ContestNotFound") /\ wf' = w
              ELSE IF ~readable THEN Finish("Transport") /\ wf' = w
              ELSE IF ~d.present THEN Finish("Scrape") /\ wf' = w
              ELSE IF ~explicit /\ raise_if_not_begun(status)
              THEN Finish("ContestNotBegun") /\ wf' = [w EXCEPT !.phase = status]
              ELSE IF registers(explicit, wf.contest, status)
              THEN /\ wf' = EnterLogin([w EXCEPT !.phase = status], jar[1])
                   /\ pc' = login_if_not(jar[1])
                   /\ stack' = <<"register">> \o stack
                   /\ result' = result
              ELSE /\ wf' = [w EXCEPT !.phase = status, !.reg_returned = TRUE]
                   /\ ReturnFromRegister

\* register_if_active_or_explicit: GET the top page again for the CSRF token
RegToken ==
    /\ pc = "reg.token"
    /\ \E net \in Answers0({200, 404}), url \in {url_top(wf.contest)} :
       \E r \in {wfSend(url, {200}, net, "ok")} :
       \E page \in IF r.result = "Ok" THEN {"token", "no_token", "unreadable"} ELSE {"token"} :
           /\ Exchanged(r, "GET", url)
           /\ wf' = wf
           /\ IF r.result # "Ok" THEN Finish(r.result)
              ELSE IF page = "unreadable" THEN Finish("Transport")
              ELSE IF page = "no_token" THEN Finish("Scrape")
              ELSE pc' = "reg.post" /\ UNCHANGED <<stack, result>>

\* register_if_active_or_explicit: POST the registration form, accepting 302
RegPost ==
    /\ pc = "reg.post"
    /\ \E net \in Answers0({302, 200}), url \in {url_register(wf.contest)} :
       \E r \in {wfSend(url, {302}, net, "ok")} :
           /\ Exchanged(r, "POST", url)
           /\ wf' = [wf EXCEPT !.reg_returned = (r.result = "Ok")]
           /\ IF r.result # "Ok" THEN Finish(r.result) ELSE ReturnFromRegister

-----------------------------------------------------------------------------
(* Atcoder::submit *)

\* crate::fs::read_to_string(src_path), then the request for the token
ReadSource(w, src) ==
    IF src.ok
    THEN /\ wf' = [w EXCEPT !.source_len = src.len]
         /\ pc' = "submit.token"
         /\ UNCHANGED <<stack, result>>
    ELSE /\ wf' = w
         /\ Finish("ReadFile")

\* a check for an accepted submission made whenever it is not skipped
checks_unless_skipped(skip, contest, status) == ~skip

\* submit's checks_if_accepted once the status did not raise: status is the
\* variant of the ContestStatus, "none" when && never came to it
checks_if_accepted_when(skip, contest, status) ==
    ~skip /\ contest # Practice /\ status = "Active"

\* submit, from the tasks page to its next request: checks_if_accepted, the
\* task named problem and its screen name
SubmitFromTasksPage(doc) ==
    \E d \in {extract_contest_duration(doc)}, ts \in {extract_task_urls_with_names(doc)} :
    \E needsStatus \in {~wf.skip_checking_if_accepted /\ wf.contest # Practice} :
    \E now \in IF needsStatus /\ d.present THEN Times ELSE {0} :
    \E computed \in {IF needsStatus /\ d.present
                      THEN check_current_status(d, Display(wf.contest), now) ELSE NoStatus} :
    \E status \in {computed.variant}, k \in {FirstNamed(ts.tasks, wf.problem)} :
    \E caps \in {IF k = 0 THEN NoCapture ELSE SCREEN_NAME(ts.tasks[k].url)} :
    \E early \in {IF needsStatus /\ ~d.present THEN "Scrape"
                  ELSE IF needsStatus /\ raise_if_not_begun(status) THEN "ContestNotBegun"
                  ELSE IF ts.err # "Ok" THEN ts.err
                  ELSE IF ~caps.matched THEN "NoSuchProblem"
                  ELSE "Ok"} :
    \E checks_if_accepted \in {early = "Ok" /\ checks_if_accepted_when(
                                    wf.skip_checking_if_accepted, wf.contest, status)} :
    \E lst \in IF early = "Ok" THEN SubmitListings ELSE {NoListing} :
    \E src \in IF early = "Ok" /\ ~checks_if_accepted THEN SourceFiles ELSE {NoSource} :
    \E w \in {[wf EXCEPT !.decided = (early = "Ok"),
                         !.duration = IF needsStatus THEN d ELSE @,
                         !.status = computed,
                         !.checks_if_accepted = checks_if_accepted,
                         !.task_screen_name = caps.name,
                         !.task_url = IF k = 0 THEN <<>> ELSE ts.tasks[k].url,
                         !.listing = lst, !.page = 1]} :
        IF early # "Ok"
        THEN Finish(early) /\ wf' = [wf EXCEPT !.duration = w.duration, !.status = w.status]
        ELSE IF checks_if_accepted
        THEN wf' = w /\ pc' = "submit.list" /\ UNCHANGED <<stack, result>>
        ELSE ReadSource(w, src)

\* download, from the tasks page to its first task: the rows of the tasks
\* table, which the filter and the map then take one by one
DownloadFromTasksPage(doc) ==
    \E ts \in {extract_task_urls_with_names(doc)} :
        IF ts.err # "Ok" THEN Finish(ts.err) /\ wf' = wf
        ELSE /\ wf' = [wf EXCEPT !.tasks = ts.tasks, !.next = 1]
             /\ pc' = "download.task"
             /\ UNCHANGED <<stack, result>>

\* the caller of fetch_tasks_page goes on with the document
WithTasksPage(doc) ==
    IF wf.kind = "download" THEN DownloadFromTasksPage(doc) ELSE SubmitFromTasksPage(doc)

\* fetch_tasks_page: GET the tasks page accepting 200, 302 and 404; anything
\* but 200 goes through register_if_active_or_explicit
TasksFirst ==
    /\ pc = "tasks.first"
    /\ \E net \in Answers0({200, 302, 404, 500}), url \in {url_tasks(wf.contest)} :
       \E r \in {wfSend(url, {200, 302, 404}, net, "ok")} :
       \E readable \in IF r.result = "Ok" /\ r.status = 200 THEN BOOLEAN ELSE {TRUE} :
       \E doc \in IF r.result = "Ok" /\ r.status = 200 /\ readable THEN TasksPages ELSE {EmptyDocument} :
           /\ Exchanged(r, "GET", url)
           /\ IF r.result # "Ok" THEN Finish(r.result) /\ wf' = wf
              ELSE IF r.status # 200
              THEN /\ pc' = "reg.top"
                   /\ stack' = <<"fetch_tasks_page">> \o stack
                   /\ UNCHANGED <<wf, result>>
              ELSE IF ~readable THEN Finish("Transport") /\ wf' = wf
              ELSE WithTasksPage(doc)

\* a second GET of the tasks page that, like the first, accepts 200, 302 and
\* 404 and goes through the registration again on anything but 200
TasksSecondLikeFirst ==
    /\ pc = "tasks.second"
    /\ \E net \in Answers0({200, 302, 404}), url \in {url_tasks(wf.contest)} :
       \E r \in {wfSend(url, {200, 302, 404}, net, "ok")} :
       \E readable \in IF r.result = "Ok" /\ r.status = 200 THEN BOOLEAN ELSE {TRUE} :
       \E doc \in IF r.result = "Ok" /\ r.status = 200 /\ readable THEN TasksPages ELSE {EmptyDocument} :
           /\ Exchanged(r, "GET", url)
           /\ IF r.result # "Ok" THEN Finish(r.result) /\ wf' = wf
              ELSE IF r.status # 200
              THEN /\ pc' = "reg.top"
                   /\ stack' = <<"fetch_tasks_page">> \o stack
                   /\ UNCHANGED <<wf, result>>
              ELSE IF ~readable THEN Finish("Transport") /\ wf' = wf
              ELSE WithTasksPage(doc)

\* fetch_tasks_page: after the registration, GET the tasks page accepting 200
TasksSecond ==
    /\ pc = "tasks.second"
    /\ \E net \in Answers0({200, 404}), url \in {url_tasks(wf.contest)} :
       \E r \in {wfSend(url, {200}, net, "ok")} :
       \E readable \in IF r.result = "Ok" THEN BOOLEAN ELSE {TRUE} :
       \E doc \in IF r.result = "Ok" /\ readable THEN TasksPages ELSE {EmptyDocument} :
           /\ Exchanged(r, "GET", url)
           /\ IF r.result # "Ok" THEN Finish(r.result) /\ wf' = wf
              ELSE IF ~readable THEN Finish("Transport") /\ wf' = wf
              ELSE WithTasksPage(doc)

\* submit's duplicate check: GET page wf.page of the submissions listing; an
\* accepted submission of the task ends submit, else the next page up to the
\* page count read on page 1, then the source file
SubmitList ==
    /\ pc = "submit.list"
    /\ \E net \in Answers0({200, 404}), url \in {url_submissions_me(wf.contest, wf.page)} :
       \E r \in {wfSend(url, {200}, net, "ok")} :
       \E readable \in IF r.result = "Ok" THEN BOOLEAN ELSE {TRUE} :
       \E ex \in {extract_submissions(wf.listing[wf.page])} :
       \E n \in {num_pages_of_first(wf.page, wf.num_pages, ex.num_pages)} :
       \E accepted \in {any_accepted(ex.submissions, wf.task_screen_name)} :
       \E src \in IF r.result = "Ok" /\ readable /\ ex.err = "Ok" /\ ~accepted /\ wf.page + 1 > n
                  THEN SourceFiles ELSE {NoSource} :
        LET w == [wf EXCEPT !.num_pages = n, !.extracted = wf.page]
        IN /\ Exchanged(r, "GET", url)
           /\ IF r.result # "Ok" THEN Finish(r.result) /\ wf' = wf
              ELSE IF ~readable THEN Finish("Transport") /\ wf' = wf
              ELSE IF ex.err # "Ok" THEN Finish(ex.err) /\ wf' = wf
              ELSE IF accepted THEN Finish("AlreadyAccepted") /\ wf' = w
              ELSE IF wf.page + 1 <= n
              THEN wf' = [w EXCEPT !.page = @ + 1] /\ UNCHANGED <<pc, stack, result>>
              ELSE ReadSource(w, src)

\* submit: GET the task's page for the CSRF token
SubmitToken ==
    /\ pc = "submit.token"
    /\ \E net \in Answers0({200, 404}) :
       \E r \in {wfSend(wf.task_url, {200}, net, "ok")} :
       \E page \in IF r.result = "Ok" THEN {"token", "no_token", "unreadable"} ELSE {"token"} :
           /\ Exchanged(r, "GET", wf.task_url)
           /\ wf' = wf
           /\ IF r.result # "Ok" THEN Finish(r.result)
              ELSE IF page = "unreadable" THEN Finish("Transport")
              ELSE IF page = "no_token" THEN Finish("Scrape")
              ELSE pc' = "submit.post" /\ UNCHANGED <<stack, result>>

\* the Location headers of the answers to the submission
SubmitLocations ==
    {NoLocation,
     Location(<<"/", "contests", "/", "abc", "1", "0", "0", "/", "submissions", "/", "me">>),
     Location(<<"/", "contests", "/", "abc", "1", "0", "0", "/", "submit">>),
     Location(<<"/", "login">>),
     Location(<<"/", "contests", "/", "0xE9", "/", "submissions", "/", "me">>),
     Location(<<"/", "0xE9">>)}

\* the answers to the submission
SubmitAnswers ==
    {TransportError} \cup
    {Response(s, NoSetCookie, l, UnreadableBody) : s \in {302, 200}, l \in SubmitLocations}

\* submit: POST the submission accepting 302, then the Location of the answer
SubmitPost ==
    /\ pc = "submit.post"
    /\ \E net \in SubmitAnswers, url \in {url_submit(wf.contest)} :
       \E r \in {wfSend(url, {302}, net, "ok")}, location \in {net.location} :
       \E str \in {to_str(location.value)} :
       \E browser \in IF /\ r.result = "Ok"
                         /\ location.present
                         /\ ~str.err
                         /\ location_is_redirect_to_submissions(str.str)
                      THEN {"no", "ok", "fail"} ELSE {"no"} :
        LET error(s, l) == SubmissionRejected(wf.lang_id, wf.source_len, s, l)
            w == [wf EXCEPT !.post = [answered |-> ~net.err /\ r.executed, status |-> r.status,
                                      location |-> location]]
        IN /\ Exchanged(r, "POST", url)
           /\ IF r.result = "UnexpectedStatusCode"
              THEN Finish("SubmissionRejected") /\ wf' = [w EXCEPT !.rejected = error(r.status, NoLocation)]
              ELSE IF r.result # "Ok" THEN Finish(r.result) /\ wf' = w
              ELSE IF ~location.present
              THEN Finish("SubmissionRejected") /\ wf' = [w EXCEPT !.rejected = error(r.status, NoLocation)]
              ELSE IF str.err THEN Finish("ReadHeader") /\ wf' = w
              ELSE IF ~location_is_redirect_to_submissions(str.str)
              THEN Finish("SubmissionRejected") /\ wf' = [w EXCEPT !.rejected = error(r.status, Location(str.str))]
              ELSE wf' = w /\ Finish(IF browser = "fail" THEN "OpenInBrowser" ELSE "Ok")

-----------------------------------------------------------------------------
(* SpecSubmit: the submit command *)

InitSubmit ==
    /\ \E inner \in {{}, {SidCookie}} :
        StartedSession(inner, NoRobots)
    /\ \E contest \in {Practice, Abc(100)}, skip \in BOOLEAN, cr \in {"Some", "None"} :
        wf = [NoWf EXCEPT !.kind = "submit", !.credentials = cr, !.contest = contest,
                          !.problem = "A", !.skip_checking_if_accepted = skip, !.lang_id = "3003"]
    /\ pc = "tasks.first"
    /\ stack = <<"submit">>
    /\ log = <<>>
    /\ result = "running"

NextSubmit ==
    \/ TasksFirst
    \/ RegTop
    \/ LoginProbe
    \/ LoginGet
    \/ LoginPost
    \/ LoginCheck
    \/ RegToken
    \/ RegPost
    \/ TasksSecond
    \/ SubmitList
    \/ SubmitToken
    \/ SubmitPost

SpecSubmit == InitSubmit /\ [][NextSubmit]_vars

-----------------------------------------------------------------------------
(* SpecRegister: the commands that register: participate (explicitly), and  *)
(* submit through fetch_tasks_page (implicitly)                             *)

InitParticipate ==
    /\ \E inner \in {{}, {SidCookie}} :
        StartedSession(inner, NoRobots)
    /\ \E contest \in {Practice, Abc(100)}, cr \in {"Some", "None"} :
        wf = [NoWf EXCEPT !.kind = "participate", !.credentials = cr, !.contest = contest]
    /\ pc = "reg.top"
    /\ stack = <<"participate">>
    /\ log = <<>>
    /\ result = "running"

InitRegister == InitParticipate \/ InitSubmit

SpecRegister == InitRegister /\ [][NextSubmit]_vars

-----------------------------------------------------------------------------
(* Atcoder::restore *)

\* the key of detail_urls
KeyOf(submission) == <<submission.task_name, submission.lang_name>>

\* a collect_urls that inserts every submission: the last one of a key stays
RECURSIVE collect_urls_inserting_all(_, _)
collect_urls_inserting_all(detail_urls, submissions) ==
    IF submissions = <<>> THEN detail_urls
    ELSE collect_urls_inserting_all(
            [key \in DOMAIN detail_urls \cup {KeyOf(Head(submissions))} |->
                IF key = KeyOf(Head(submissions)) THEN Head(submissions).detail_url
                ELSE detail_urls[key]],
            Tail(submissions))

\* restore's collect_urls: each submission in order, inserted when
\* detail_urls.get(&key).is_none()
RECURSIVE collect_urls(_, _)
collect_urls(detail_urls, submissions) ==
    IF submissions = <<>> THEN detail_urls
    ELSE collect_urls(
            IF KeyOf(Head(submissions)) \in DOMAIN detail_urls
            THEN detail_urls
            ELSE [key \in DOMAIN detail_urls \cup {KeyOf(Head(submissions))} |->
                    IF key = KeyOf(Head(submissions)) THEN Head(submissions).detail_url
                    ELSE detail_urls[key]],
            Tail(submissions))

\* the rows of the submissions pages restore reads
RestoreRows ==
    {Submission("A", "abc100_a", "Rust", <<"/", "d1">>, FALSE),
     Submission("A", "abc100_a", "Rust", <<"/", "d2">>, TRUE),
     Submission("B", "abc100_b", "Rust", <<"/", "d3">>, TRUE),
     Submission("B", "abc100_b", "C++", <<"/", "d4">>, TRUE)}

\* every sequence over S of length n
Seqs(S, n) == [1..n -> S]

RestorePages(first) ==
    {ListingPage(TRUE, rows, n) :
        rows \in UNION {Seqs(RestoreRows, len) : len \in 0..MaxRows},
        n \in IF first THEN 0..MaxPages ELSE {LaterCount}}
    \cup {ListingPage(FALSE, <<>>, 0)}

\* the options of #select-language on the first page: language name -> id
LanguageOptions == {{}, {<<"Rust", "3504">>}, {<<"Rust", "3504">>, <<"C++", "3003">>}}

\* Extract::extract_lang_id
extract_lang_id(options, lang_name) ==
    IF \E o \in options : o[1] = lang_name
    THEN [err |-> "Ok", id |-> (CHOOSE o \in options : o[1] = lang_name)[2]]
    ELSE [err |-> "Scrape", id |-> ""]

NoProblems == [present |-> FALSE, names |-> <<>>]
SomeProblems(names) == [present |-> TRUE, names |-> names]

\* a filter that looks at the first of the problems only
named_by_first(problems, name) ==
    ~problems.present \/ (problems.names # <<>> /\ problems.names[1] = name)

\* problems.iter().any(|p| p == name), every name when no problems are given
named_by(problems, name) ==
    ~problems.present \/ \E i \in DOMAIN problems.names : problems.names[i] = name

\* Vec::remove_item_ of util::std_unstable: v without the items equal to x
remove_item_(v, x) == SelectSeq(v, LAMBDA y : y # x)

\* not_found once remove_item_ took the names of the sequence names from it
RECURSIVE remove_items(_, _)
remove_items(not_found, names) ==
    IF names = <<>> THEN not_found
    ELSE remove_items(remove_item_(not_found, Head(names)), Tail(names))

\* restore once the loop over detail_urls is over: a "Saved to" line and a
\* remove_item_ for each of results, the "Not found:" line when not_found is
\* not empty, and the "Saved N files." line of results.len()
RestoreEnds(w) ==
    \E not_found \in {remove_items(w.problems.names, [i \in DOMAIN w.results |-> w.results[i][1]])} :
        /\ wf' = [w EXCEPT !.not_found = not_found,
                           !.reported = IF not_found # <<>> THEN SomeProblems(not_found)
                                        ELSE NoProblems,
                           !.summary = [present |-> TRUE, count |-> Len(w.results)]]
        /\ Finish("Ok")

\* a source path that is there for every language id
src_paths_get_any(src_paths, lang_id) == TRUE

\* src_paths.get(lang_id.as_str()) is Some(path_template)
src_paths_get(src_paths, lang_id) == lang_id \in src_paths

\* restore: GET page wf.page of the submissions listing, extract it and
\* collect its detail URLs; pages 2..=num_pages follow page 1
RestorePage ==
    /\ pc = "restore.page"
    /\ \E net \in Answers0({200, 404}), url \in {url_submissions_me(wf.contest, wf.page)} :
       \E r \in {wfSend(url, {200}, net, "ok")} :
       \E readable \in IF r.result = "Ok" THEN BOOLEAN ELSE {TRUE} :
       \E doc \in IF r.result = "Ok" /\ readable THEN RestorePages(wf.page = 1) ELSE {EmptyDocument} :
       \E options \in IF r.result = "Ok" /\ readable /\ wf.page = 1 THEN LanguageOptions ELSE {wf.options} :
       \E ex \in {extract_submissions(doc)} :
       \E n \in {num_pages_of_first(wf.page, wf.num_pages, ex.num_pages)} :
       \E urls \in {collect_urls(wf.detail_urls, ex.submissions)} :
        LET w == [wf EXCEPT !.num_pages = n, !.extracted = wf.page, !.options = options,
                            !.submissions = ex.submissions, !.detail_urls = urls,
                            !.todo = DOMAIN urls]
        IN /\ Exchanged(r, "GET", url)
           /\ IF r.result # "Ok" THEN Finish(r.result) /\ wf' = wf
              ELSE IF ~readable THEN Finish("Transport") /\ wf' = wf
              ELSE IF ex.err # "Ok" THEN Finish(ex.err) /\ wf' = wf
              ELSE IF wf.page + 1 <= n
              THEN wf' = [w EXCEPT !.page = @ + 1] /\ UNCHANGED <<pc, stack, result>>
              ELSE IF urls = <<>>
              THEN RestoreEnds(w)
              ELSE wf' = w /\ pc' = "restore.detail" /\ UNCHANGED <<stack, result>>

\* restore: the next entry of detail_urls, in the map's order: skipped when
\* the problems are given and do not name its task; else GET its detail
\* page, the submitted code, the language id, and the file written when the
\* language has a source path
RestoreDetail ==
    /\ pc = "restore.detail"
    /\ \E key \in wf.todo :
       \E selected \in {named_by(wf.problems, key[1])} :
       \E net \in IF selected THEN Answers0({200, 404}) ELSE {TransportError} :
       \E r \in {wfSend(wf.detail_urls[key], {200}, net, "ok")} :
       \E page \in IF selected /\ r.result = "Ok" THEN {"code", "no_code", "unreadable"} ELSE {"code"} :
       \E lang \in {extract_lang_id(wf.options, key[2])} :
       \E write \in IF selected /\ r.result = "Ok" /\ page = "code" /\ lang.err = "Ok"
                       /\ src_paths_get(wf.src_paths, lang.id)
                    THEN {"ok", "fail"} ELSE {"ok"} :
        LET w == [wf EXCEPT !.todo = @ \ {key}]
            err == IF ~selected THEN "Ok"
                   ELSE IF r.result # "Ok" THEN r.result
                   ELSE IF page = "unreadable" THEN "Transport"
                   ELSE IF page = "no_code" THEN "Scrape"
                   ELSE IF lang.err # "Ok" THEN lang.err
                   ELSE IF write = "fail" THEN "WriteFile"
                   ELSE "Ok"
            saved == selected /\ err = "Ok" /\ src_paths_get(wf.src_paths, lang.id)
            ignored == selected /\ err = "Ok" /\ ~src_paths_get(wf.src_paths, lang.id)
            w2 == [w EXCEPT !.saved = IF saved THEN @ + 1 ELSE @,
                            !.ignored = IF ignored THEN @ + 1 ELSE @,
                            !.results = IF saved THEN Append(@, key) ELSE @,
                            !.written = IF saved /\ write = "ok" THEN Append(@, key) ELSE @,
                            !.warnings = IF ignored THEN Append(@, key) ELSE @]
        IN /\ IF selected THEN Exchanged(r, "GET", wf.detail_urls[key])
              ELSE UNCHANGED <<sessVars, log>>
           /\ IF err # "Ok" THEN Finish(err) /\ wf' = w
              ELSE IF w.todo = {} THEN RestoreEnds(w2)
              ELSE wf' = w2 /\ UNCHANGED <<pc, stack, result>>

-----------------------------------------------------------------------------
(* SpecRestore: the restore command *)

InitRestore ==
    /\ StartedSession({SidCookie}, NoRobots)
    /\ \E problems \in {NoProblems, SomeProblems(<<"A">>)}, src_paths \in {{}, {"3504"}} :
        wf = [NoWf EXCEPT !.kind = "restore", !.contest = Abc(100), !.page = 1,
                          !.problems = problems, !.src_paths = src_paths]
    /\ pc = "restore.page"
    /\ stack = <<"restore">>
    /\ log = <<>>
    /\ result = "running"

NextRestore == RestorePage \/ RestoreDetail

SpecRestore == InitRestore /\ [][NextRestore]_vars

-----------------------------------------------------------------------------
(* Functions applied on their own: the arguments are drawn when the call    *)
(* begins (pc = "call"), the action applies the function (pc = "done")      *)

\* the call of the function named kind on one of inputs
Called(kind, inputs) ==
    /\ NoSessions
    /\ pc = "call"
    /\ stack = <<>>
    /\ log = <<>>
    /\ result = "running"
    /\ \E i \in inputs : wf = [NoWf EXCEPT !.kind = kind, !.input = i]

\* the function named kind returns out
Returned(kind, out) ==
    /\ pc = "call"
    /\ wf.kind = kind
    /\ wf' = [wf EXCEPT !.output = out]
    /\ pc' = "done"
    /\ UNCHANGED <<sessVars, stack, log, result>>

-----------------------------------------------------------------------------
(* SpecStatus: ContestDuration::check_current_status *)

MaxInstant == 4
Instants == 0..MaxInstant

\* the durations of a contest (start < end), its name and the clock
StatusInputs ==
    {[duration |-> ContestDuration(t1, t2), contest_name |-> Display(c), now |-> now] :
        t1 \in Instants, t2 \in Instants, c \in {Practice, Abc(100)}, now \in Instants}

InitStatus == Called("check_current_status", {i \in StatusInputs : i.duration.start < i.duration.end})

CheckCurrentStatus ==
    Returned("check_current_status",
             check_current_status(wf.input.duration, wf.input.contest_name, wf.input.now))

NextStatus == CheckCurrentStatus

SpecStatus == InitStatus /\ [][NextStatus]_vars

-----------------------------------------------------------------------------
(* SpecContest: AtcoderContest::new *)

ContestNumbers == {0, 7, 21, 100, 999}

\* the names before the digits, as users write them
ContestWords ==
    {<<>>, <<"a", "b", "c">>, <<"A", "B", "C">>, <<"a", "B", "c">>, <<"a", "r", "c">>,
     <<"A", "G", "C">>, <<"a", "t", "c">>, <<"A", "p", "c">>,
     <<"c", "h", "o", "k", "u", "d", "a", "i", "_", "s">>,
     <<"C", "H", "O", "K", "U", "D", "A", "I", "S">>,
     <<"x">>, <<"a", "b", "_">>, NamePractice, NameApg4b}

\* the digits after the name: three, fewer, more, and three that are not ASCII
ContestDigits ==
    {Pad3(n) : n \in ContestNumbers} \cup
    {<<>>, <<"1", "2">>, <<"1", "2", "3", "4">>, <<"0x0663", "2", "3">>}

ContestInputs ==
    {l \o w \o d \o r : l \in {<<>>, <<" ">>}, w \in ContestWords, d \in ContestDigits,
                        r \in {<<>>, <<"0x0A">>}}

InitContest == Called("AtcoderContest::new", ContestInputs)

ContestNew == Returned("AtcoderContest::new", AtcoderContest_new(wf.input))

NextContest == ContestNew

SpecContest == InitContest /\ [][NextContest]_vars

-----------------------------------------------------------------------------
(* Timelimits.  A u64 is modelled by its decimal numeral, a sequence of     *)
(* digits without leading zeros, so that the arithmetic of the parsers is   *)
(* exact at every magnitude; a multiplication by a power of ten appends     *)
(* zeros and a division by one drops digits.                                 *)

U64_MAX ==
    <<"1", "8", "4", "4", "6", "7", "4", "4", "0", "7", "3", "7", "0", "9", "5", "5", "1",
      "6", "1", "5">>

\* the numeral of the number the digits ds write: str::parse::<u64>
Numeral(ds) ==
    IF \A i \in 1..Len(ds) : ds[i] = "0" THEN <<"0">>
    ELSE SubSeq(ds, CHOOSE i \in 1..Len(ds) : ds[i] # "0" /\ \A j \in 1..(i - 1) : ds[j] = "0",
                Len(ds))

\* a <= b, for numerals
NumeralLE(a, b) ==
    \/ Len(a) < Len(b)
    \/ /\ Len(a) = Len(b)
       /\ \/ a = b
          \/ \E i \in 1..Len(a) :
                /\ \A j \in 1..(i - 1) : a[j] = b[j]
                /\ IndexOf(DigitChar, a[i]) < IndexOf(DigitChar, b[i])

FitsU64(a) == NumeralLE(a, U64_MAX)

Zeros(n) == [i \in 1..n |-> "0"]

\* b * 10u64.pow(n)
MulPow10(b, n) == Numeral(b \o Zeros(n))

\* b / 10u64.pow(n)
DivPow10(b, n) == IF Len(b) <= n THEN <<"0">> ELSE SubSeq(b, 1, Len(b) - n)

\* b + f where b is a multiple of 10^n and f is written with n digits
AddBelow(b, f, n) == Numeral(DivPow10(b, n) \o f)

\* the index where the run of characters of set that begins at from ends
\* (from - 1 when it is empty)
RunEnd(s, from, set) ==
    CHOOSE j \in (from - 1)..Len(s) :
        /\ \A i \in from..j : s[i] \in set
        /\ (j < Len(s) => s[j + 1] \notin set)

\* Option<Duration>, the duration in milliseconds; overflow: an operation on
\* the way left the range of u64
NoTimelimit == [some |-> FALSE, millis |-> <<"0">>, overflow |-> FALSE]
from_millis(n, overflow) == [some |-> TRUE, millis |-> n, overflow |-> overflow]

\* the captures of \A\D*([0-9]{1,9})(\.[0-9]{1,3})?\s*(m)?sec.*\z in text
TIMELIMIT_captures(text) ==
    LET a == RunEnd(text, 1, Range(text) \ DecimalDigits)
        b == RunEnd(text, a + 1, AsciiDigits)
        dot == b < Len(text) /\ text[b + 1] = "."
        c == IF dot THEN RunEnd(text, b + 2, AsciiDigits) ELSE b
        d == RunEnd(text, c + 1, WhiteSpace)
        m == d < Len(text) /\ text[d + 1] = "m"
        e == IF m THEN d + 1 ELSE d
        matched == /\ b - a \in 1..9
                   /\ dot => c - (b + 1) \in 1..3
                   /\ e + 3 <= Len(text)
                   /\ SubSeq(text, e + 1, e + 3) = <<"s", "e", "c">>
                   /\ \A i \in (e + 4)..Len(text) : text[i] # "0x0A"
    IN IF matched
       THEN [matched |-> TRUE, int |-> SubSeq(text, a + 1, b), dot |-> dot,
             frac |-> SubSeq(text, b + 2, c), m |-> m]
       ELSE [matched |-> FALSE, int |-> <<>>, dot |-> FALSE, frac |-> <<>>, m |-> FALSE]

\* extract_timelimit, given the text of the first text node under the <p>
extract_timelimit(text) ==
    LET caps == TIMELIMIT_captures(text)
        n == Len(caps.frac)
        b0 == Numeral(caps.int)
        b1 == MulPow10(b0, n)
        b2 == AddBelow(b1, caps.frac, n)
        e == (IF caps.m THEN 0 ELSE 3) - n
        timelimit == IF e < 0 THEN DivPow10(b2, 0 - e) ELSE MulPow10(b2, e)
    IN IF ~caps.matched THEN NoTimelimit
       ELSE from_millis(timelimit, ~FitsU64(b1) \/ ~FitsU64(b2) \/ ~FitsU64(timelimit))

-----------------------------------------------------------------------------
(* SpecTimelimit: extract_timelimit on the texts of task pages *)

Chars2sec == <<"2", "s", "e", "c">>
Chars4000msec == <<"4", "0", "0", "0", "m", "s", "e", "c">>
Chars00001sec == <<"0", ".", "0", "0", "0", "1", "s", "e", "c">>

TimelimitTexts ==
    {p \o i \o f \o w \o u \o r :
        p \in {<<>>, <<"x", " ">>, <<"0x0663">>},
        i \in {<<>>, <<"2">>, <<"0">>, <<"1">>, <<"4", "0", "0", "0">>,
               <<"9", "9", "9", "9", "9", "9", "9", "9", "9">>,
               <<"1", "2", "3", "4", "5", "6", "7", "8", "9", "0">>},
        f \in {<<>>, <<".">>, <<".", "5">>, <<".", "0", "0", "1">>, <<".", "9", "9", "9">>,
               <<".", "0", "0", "0", "1">>},
        w \in {<<>>, <<" ">>},
        u \in {<<"s", "e", "c">>, <<"m", "s", "e", "c">>, <<"s">>, <<"m", "s">>},
        r \in {<<>>, <<" ", "/">>, <<"0x0A">>}}

InitTimelimit == Called("extract_timelimit", TimelimitTexts)

ExtractTimelimit == Returned("extract_timelimit", extract_timelimit(wf.input))

NextTimelimit == ExtractTimelimit

SpecTimelimit == InitTimelimit /\ [][NextTimelimit]_vars

-----------------------------------------------------------------------------
(* SpecParseTimelimit: parse_timelimit of the command line (app.rs) *)

\* the digit a character of [0-9] writes
DigitOf(c) == IndexOf(DigitChar, c) - 1

\* .scan(k, |k, &c| { *k /= 10; Some(*k * u32::from(c - b'0')) }).sum::<u32>()
RECURSIVE scan_sum(_, _)
scan_sum(k, ds) ==
    IF ds = <<>> THEN 0
    ELSE (k \div 10) * DigitOf(Head(ds)) + scan_sum(k \div 10, Tail(ds))

\* the largest product the scan forms, for the width of u32
RECURSIVE scan_max(_, _)
scan_max(k, ds) ==
    IF ds = <<>> THEN 0
    ELSE LET p == (k \div 10) * DigitOf(Head(ds))
             q == scan_max(k \div 10, Tail(ds))
         IN IF p > q THEN p ELSE q

\* the captures of \A([0-9]{1,19})(\.[0-9]+)?(m)?s\z in s
R_captures(s) ==
    LET b == RunEnd(s, 1, AsciiDigits)
        dot == b < Len(s) /\ s[b + 1] = "."
        c == IF dot THEN RunEnd(s, b + 2, AsciiDigits) ELSE b
        m == c < Len(s) /\ s[c + 1] = "m"
        e == IF m THEN c + 1 ELSE c
        matched == /\ b \in 1..19
                   /\ dot => c > b + 1
                   /\ e + 1 = Len(s)
                   /\ s[e + 1] = "s"
    IN IF matched
       THEN [matched |-> TRUE, int |-> SubSeq(s, 1, b), frac |-> SubSeq(s, b + 2, c), m |-> m]
       ELSE [matched |-> FALSE, int |-> <<>>, frac |-> <<>>, m |-> FALSE]

\* Result<Duration, &'static str>; Duration::new(secs, nanos) with secs a
\* u64 (a numeral) and nanos a u32; widest: the largest u32 value formed
NoDurationParsed == [ok |-> FALSE, secs |-> <<"0">>, nanos |-> 0, widest |-> 0, fits |-> TRUE]
Duration_new(secs, nanos, widest, fits) ==
    [ok |-> TRUE, secs |-> secs, nanos |-> nanos, widest |-> widest, fits |-> fits]

\* the value of at most three digits
Below1000(ds) ==
    IF Len(ds) = 0 THEN 0
    ELSE IF Len(ds) = 1 THEN DigitOf(ds[1])
    ELSE IF Len(ds) = 2 THEN DigitOf(ds[1]) * 10 + DigitOf(ds[2])
    ELSE DigitOf(ds[1]) * 100 + DigitOf(ds[2]) * 10 + DigitOf(ds[3])

\* millis % 1000
Mod1000(b) == Below1000(SubSeq(b, IF Len(b) > 3 THEN Len(b) - 2 ELSE 1, Len(b)))

\* a parser that reads every value as seconds
parse_timelimit_as_seconds(s) ==
    LET caps == R_captures(s)
    IN IF ~caps.matched THEN NoDurationParsed
       ELSE Duration_new(Numeral(caps.int), scan_sum(1000000000, caps.frac),
                         scan_max(1000000000, caps.frac), FitsU64(Numeral(caps.int)))

\* parse_timelimit
parse_timelimit(s) ==
    LET caps == R_captures(s)
        millis == Numeral(caps.int)
        whole == 1000000 * Mod1000(millis)
        part == scan_sum(1000000, caps.frac)
    IN IF ~caps.matched THEN NoDurationParsed
       ELSE IF ~caps.m
       THEN Duration_new(Numeral(caps.int), scan_sum(1000000000, caps.frac),
                         scan_max(1000000000, caps.frac), FitsU64(Numeral(caps.int)))
       ELSE Duration_new(DivPow10(millis, 3), whole + part,
                         IF whole + part > scan_max(1000000, caps.frac)
                         THEN whole + part ELSE scan_max(1000000, caps.frac),
                         FitsU64(millis))

Nines(n) == [i \in 1..n |-> "9"]

CommandLineTimelimits ==
    {p \o i \o f \o u \o r :
        p \in {<<>>, <<" ">>},
        i \in {<<>>, <<"0">>, <<"2">>, <<"1", "2", "3", "4">>, <<"9", "9", "9">>,
               Nines(19), <<"1">> \o Zeros(19)},
        f \in {<<>>, <<".">>, <<".", "0">>, <<".", "5", "6", "7", "8">>,
               <<".">> \o Nines(9), <<".">> \o Nines(10), <<".">> \o Zeros(6) \o <<"1">>},
        u \in {<<"s">>, <<"m", "s">>, <<"s", "e", "c">>, <<"m">>, <<>>},
        r \in {<<>>, <<"0x0A">>}}

InitParseTimelimit == Called("parse_timelimit", CommandLineTimelimits)

ParseTimelimit == Returned("parse_timelimit", parse_timelimit(wf.input))

NextParseTimelimit == ParseTimelimit

SpecParseTimelimit == InitParseTimelimit /\ [][NextParseTimelimit]_vars

-----------------------------------------------------------------------------
(* SpecSuite: Extract::extract_as_suite on task pages *)

\* enum TestSuite
Unsubmittable == [variant |-> "Unsubmittable", timelimit |-> <<"0">>, cases |-> <<>>]
SimpleSuite(timelimit, cases) == [variant |-> "Simple", timelimit |-> timelimit, cases |-> cases]
InteractiveSuite(timelimit) == [variant |-> "Interactive", timelimit |-> timelimit, cases |-> <<>>]

\* ScrapeResult<TestSuite>
ScrapeError == [err |-> "Scrape", suite |-> Unsubmittable]
Scraped(suite) == [err |-> "Ok", suite |-> suite]

\* a task page by what extract_as_suite finds in it: the text of the first
\* text node under the <p> of the limits (or none), whether a <strong> of
\* the statement holds an interactive marker, and for each of the strategies
\* of extract_samples the nodes its two selectors find, in document order
NoText == [present |-> FALSE, value |-> <<>>]
SomeText(text) == [present |-> TRUE, value |-> text]
TaskPage(text, marker, samples) == [text |-> text, marker |-> marker, samples |-> samples]

\* the strategies extract_samples chains with or_else
NumStrategies == 8

\* the largest sample number of the model's headings
MaxSample == 2

\* a node a strategy finds.  An <h3> is given by what the strategy's two
\* patterns make of its text: the heading of an input or an output with its
\* number, a heading whose number does not parse, or neither; any other
\* node by its name and text
H3(caps, n) == [name |-> "h3", caps |-> caps, n |-> n, text |-> <<>>]
Pre(text) == [name |-> "pre", caps |-> "none", n |-> 0, text |-> text]
Section(text) == [name |-> "section", caps |-> "none", n |-> 0, text |-> text]

\* a check of the characters that lets every text begin as it likes
is_valid_text_anywhere(s) ==
    \A i \in DOMAIN s :
        /\ s[i] \in AsciiChars
        /\ (s[i] \in AsciiWhiteSpace) = (s[i] \in {" ", "0x0A"})

\* is_valid_text
is_valid_text(s) ==
    \/ s = <<"0x0A">>
    \/ /\ ~(Len(s) > 0 /\ s[1] \in {" ", "0x0A"})
       /\ \A i \in DOMAIN s :
             /\ s[i] \in AsciiChars
             /\ (s[i] \in AsciiWhiteSpace) = (s[i] \in {" ", "0x0A"})

\* the loop of try_extract_samples over the nodes: inputs and outputs are the
\* two BTreeMaps, next the heading waiting for its content, failed: the `?`
\* on a number that does not parse returned None
NoNext == [some |-> FALSE, is_input |-> FALSE, n |-> 0]
NoEntries == [i \in 1..MaxSample |-> NoText]
ScanStart == [inputs |-> NoEntries, outputs |-> NoEntries, next |-> NoNext, failed |-> FALSE]

scan_node(node, s) ==
    IF node.name = "h3"
    THEN IF node.caps \in {"in", "out"}
         THEN [s EXCEPT !.next = [some |-> TRUE, is_input |-> (node.caps = "in"), n |-> node.n]]
         ELSE IF node.caps = "unparsable" THEN [s EXCEPT !.failed = TRUE]
         ELSE s
    ELSE IF node.name \in {"pre", "section"}
    THEN IF ~s.next.some THEN s
         ELSE IF s.next.is_input
         THEN [s EXCEPT !.inputs[s.next.n] = SomeText(node.text), !.next = NoNext]
         ELSE [s EXCEPT !.outputs[s.next.n] = SomeText(node.text), !.next = NoNext]
    ELSE s

RECURSIVE scan_nodes(_, _)
scan_nodes(nodes, s) ==
    IF nodes = <<>> \/ s.failed THEN s
    ELSE CHOOSE r \in {scan_nodes(Tail(nodes), after) : after \in {scan_node(Head(nodes), s)}} : TRUE

\* a push that does not look at the end of the text
with_newline_always(s) == Append(s, "0x0A")

\* the push of '\n' onto a text that does not end with one
with_newline(s) == IF Len(s) > 0 /\ s[Len(s)] = "0x0A" THEN s ELSE Append(s, "0x0A")

\* the samples of two maps: for each input in the order of its number, the
\* pair with the output of the same number when there is one
RECURSIVE pairs_from(_, _, _)
pairs_from(inputs, outputs, i) ==
    IF i > MaxSample THEN <<>>
    ELSE (IF inputs[i].present /\ outputs[i].present
          THEN <<<<with_newline(inputs[i].value), with_newline(outputs[i].value)>>>>
          ELSE <<>>) \o pairs_from(inputs, outputs, i + 1)

\* Option<Samples>
NoSamples == [some |-> FALSE, interactive |-> FALSE, samples |-> <<>>]
InteractiveSamples == [some |-> TRUE, interactive |-> TRUE, samples |-> <<>>]
SimpleSamples(samples) == [some |-> TRUE, interactive |-> FALSE, samples |-> samples]

\* a loop that drops the samples with a text that is not valid
checked_each(samples) ==
    CHOOSE r \in
        {IF SelectSeq(v, LAMBDA p : is_valid_text(p[1]) /\ is_valid_text(p[2])) = <<>>
         THEN NoSamples
         ELSE SimpleSamples(SelectSeq(v, LAMBDA p : is_valid_text(p[1]) /\ is_valid_text(p[2]))) :
            v \in {samples}} : TRUE

\* the loop over the samples that returns None at the first text that is not
\* valid, and the result of try_extract_samples
checked(samples) ==
    CHOOSE r \in
        {IF \E k \in DOMAIN v : ~is_valid_text(v[k][1]) \/ ~is_valid_text(v[k][2])
         THEN NoSamples
         ELSE IF v = <<>> THEN NoSamples
         ELSE SimpleSamples(v) : v \in {samples}} : TRUE

\* try_extract_samples on the nodes one strategy finds
try_extract_samples(marker, nodes) ==
    IF marker THEN InteractiveSamples
    ELSE CHOOSE r \in
        {IF scanned.failed THEN NoSamples
         ELSE checked(pairs_from(scanned.inputs, scanned.outputs, 1)) :
            scanned \in {scan_nodes(nodes, ScanStart)}} : TRUE

\* a chain in which a later strategy that yields replaces an earlier one
RECURSIVE or_else_last(_, _, _)
or_else_last(marker, found, k) ==
    IF k > NumStrategies THEN NoSamples
    ELSE CHOOSE r \in
        {IF later.some THEN later ELSE try_extract_samples(marker, found[k]) :
            later \in {or_else_last(marker, found, k + 1)}} : TRUE

\* the or_else chain of extract_samples from strategy k on
RECURSIVE or_else_from(_, _, _)
or_else_from(marker, found, k) ==
    IF k > NumStrategies THEN NoSamples
    ELSE CHOOSE r \in
        {IF tried.some THEN tried ELSE or_else_from(marker, found, k + 1) :
            tried \in {try_extract_samples(marker, found[k])}} : TRUE

\* extract_samples: Option<Samples>
extract_samples(page) == or_else_from(page.marker, page.samples, 1)

\* the suite of a timelimit and the samples
suite_of(timelimit, s) ==
    IF ~s.some THEN SimpleSuite(timelimit, <<>>)
    ELSE IF s.interactive THEN InteractiveSuite(timelimit)
    ELSE SimpleSuite(timelimit, s.samples)

\* an extraction that looks at the samples before it looks at the timelimit
extract_as_suite_samples_first(page) ==
    CHOOSE scraped \in
        {IF ~timelimit.some THEN ScrapeError
         ELSE IF s.some THEN Scraped(suite_of(timelimit.millis, s))
         ELSE IF timelimit.millis = <<"0">> THEN Scraped(Unsubmittable)
         ELSE Scraped(suite_of(timelimit.millis, s)) :
            timelimit \in {IF page.text.present THEN extract_timelimit(page.text.value)
                           ELSE NoTimelimit},
            s \in {extract_samples(page)}} : TRUE

\* an extraction that takes a page without samples for a failure
extract_as_suite_requiring_samples(page) ==
    CHOOSE scraped \in
        {IF ~timelimit.some THEN ScrapeError
         ELSE IF timelimit.millis = <<"0">> THEN Scraped(Unsubmittable)
         ELSE IF ~extract_samples(page).some THEN ScrapeError
         ELSE Scraped(suite_of(timelimit.millis, extract_samples(page))) :
            timelimit \in {IF page.text.present THEN extract_timelimit(page.text.value)
                           ELSE NoTimelimit}} : TRUE

\* Extract::extract_as_suite
extract_as_suite(page) ==
    CHOOSE scraped \in
        {IF ~timelimit.some THEN ScrapeError
         ELSE IF timelimit.millis = <<"0">> THEN Scraped(Unsubmittable)
         ELSE Scraped(suite_of(timelimit.millis, extract_samples(page))) :
            timelimit \in {IF page.text.present THEN extract_timelimit(page.text.value)
                           ELSE NoTimelimit}} : TRUE

SamplePair == <<<<"1", "0x0A">>, <<"2", "0x0A">>>>

\* the nodes of the input and the output of sample 1
PairNodes == <<H3("in", 1), Pre(SamplePair[1]), H3("out", 1), Pre(SamplePair[2])>>

\* a page on which no strategy finds a node, and one on which only strategy
\* k finds some
NoSampleNodes == [k \in 1..NumStrategies |-> <<>>]
FoundBy(k, nodes) == [NoSampleNodes EXCEPT ![k] = nodes]

TaskStatementPages ==
    {TaskPage(t, marker, s) :
        t \in {NoText} \cup {SomeText(x) : x \in {y \in TimelimitTexts : Len(y) <= 9 /\ y[1] \in AsciiDigits}},
        marker \in BOOLEAN, s \in {NoSampleNodes, FoundBy(1, PairNodes)}}

\* texts of samples
TextIn1 == <<"1", "0x0A">>
TextOut1 == <<"2", "0x0A">>
TextIn2 == <<"3", " ", "4", "0x0A">>
TextOut2 == <<"-", "a", "0x0A">>

\* what one strategy may find
SampleNodeLists ==
    {<<>>,
     PairNodes,
     \* texts that do not end with a newline, one of them empty
     <<H3("in", 1), Pre(<<"1">>), H3("out", 1), Pre(<<>>)>>,
     \* a text that ends with two newlines
     <<H3("in", 1), Pre(<<"1", "0x0A", "0x0A">>), H3("out", 1), Pre(TextOut1)>>,
     \* an input without output, an output without input
     <<H3("in", 1), Pre(TextIn1), H3("out", 1), Pre(TextOut1), H3("in", 2), Pre(TextIn2)>>,
     <<H3("out", 2), Pre(TextOut2), H3("in", 1), Pre(TextIn1)>>,
     \* headings out of order, contents in <section>
     <<H3("out", 2), Section(TextOut2), H3("in", 2), Section(TextIn2),
       H3("out", 1), Pre(TextOut1), H3("in", 1), Pre(TextIn1)>>,
     \* a second pair whose input starts with a space, has a tab, has a
     \* character that is not ASCII, starts with a newline
     PairNodes \o <<H3("in", 2), Pre(<<" ", "3", "0x0A">>), H3("out", 2), Pre(TextOut2)>>,
     PairNodes \o <<H3("in", 2), Pre(TextIn2), H3("out", 2), Pre(<<"3", "0x09", "4", "0x0A">>)>>,
     PairNodes \o <<H3("in", 2), Pre(<<"0x3042", "0x0A">>), H3("out", 2), Pre(TextOut2)>>,
     <<H3("in", 1), Pre(<<"0x0A", "1", "0x0A">>), H3("out", 1), Pre(TextOut1)>>,
     \* an invalid text that has no partner
     PairNodes \o <<H3("in", 2), Pre(<<" ", "3", "0x0A">>)>>,
     \* a heading whose number does not parse
     PairNodes \o <<H3("unparsable", 0), Pre(TextIn2)>>,
     \* a content without heading, another heading, a heading given twice
     <<Pre(TextIn2), H3("none", 0), H3("in", 1), Pre(TextIn1), Pre(TextIn2),
       H3("out", 1), H3("out", 1), Pre(TextOut1), H3("in", 1), Pre(TextOut2)>>}

\* task pages with a timelimit of 2 s by what the first two and the last
\* strategy find
SamplePages ==
    {TaskPage(SomeText(Chars2sec), marker,
              [NoSampleNodes EXCEPT ![1] = a, ![2] = b, ![NumStrategies] = c]) :
        marker \in BOOLEAN, a \in SampleNodeLists, b \in SampleNodeLists, c \in {<<>>, PairNodes}}

InitSuite == Called("extract_as_suite", TaskStatementPages \cup SamplePages)

ExtractAsSuite == Returned("extract_as_suite", extract_as_suite(wf.input))

NextSuite == ExtractAsSuite

SpecSuite == InitSuite /\ [][NextSuite]_vars

-----------------------------------------------------------------------------
(* SpecDownload: the download command *)

\* Option<TestSuite>
NoSuite == [present |-> FALSE, suite |-> Unsubmittable]
SomeSuite(suite) == [present |-> TRUE, suite |-> suite]

\* AtcoderContest::preset_suite
preset_suite(contest) ==
    IF contest = Numbered("Arc", 19) THEN SomeSuite(InteractiveSuite(<<"2", "0", "0", "0">>))
    ELSE IF contest = Numbered("Arc", 21) THEN SomeSuite(InteractiveSuite(<<"4", "0", "0", "0">>))
    ELSE NoSuite

\* download's outputs entry (url, name, suite, path)
Output(url, name, suite) == [url |-> url, name |-> name, suite |-> suite]

\* the task pages download meets: one without the limits, one with samples
DownloadTaskPages ==
    {TaskPage(NoText, FALSE, NoSampleNodes),
     TaskPage(SomeText(Chars2sec), FALSE, FoundBy(1, PairNodes))}

\* the field of sequence seq
FieldOf(seq, f) == [i \in DOMAIN seq |-> seq[i][f]]

\* download once every suite is saved: the flush, the "Not found:" line when
\* not_found is not empty, and the browser on the submissions and the task
\* URLs when open_browser; the first n calls of open_in_browser succeed
DownloadEnds(w) ==
    \E reported \in {IF w.not_found # <<>> THEN SomeProblems(w.not_found) ELSE NoProblems} :
    \E urls \in {IF w.open_browser
                 THEN <<url_submissions_me(w.contest, 1)>> \o FieldOf(w.outputs, "url")
                 ELSE <<>>} :
    \E n \in 0..Len(urls) :
        /\ wf' = [w EXCEPT !.reported = reported, !.opened = SubSeq(urls, 1, n)]
        /\ Finish(IF n = Len(urls) THEN "Ok" ELSE "Browser")

\* a download that saves the suite of each task as soon as it has it
DownloadTaskSavingAtOnce ==
    /\ pc = "download.task"
    /\ \E t \in {wf.tasks[wf.next]} :
       \E selected \in {named_by(wf.problems, t.name)} :
       \E preset \in {preset_suite(wf.contest)} :
       \E fetches \in {selected /\ ~preset.present} :
       \E net \in IF fetches THEN Answers0({200, 404}) ELSE {TransportError} :
       \E r \in {wfSend(t.url, {200}, net, "ok")} :
       \E readable \in IF fetches /\ r.result = "Ok" THEN BOOLEAN ELSE {TRUE} :
       \E page \in IF fetches /\ r.result = "Ok" /\ readable THEN DownloadTaskPages
                   ELSE {TaskPage(NoText, FALSE, NoSampleNodes)} :
       \E scraped \in {IF fetches THEN extract_as_suite(page) ELSE Scraped(preset.suite)} :
       \E path \in IF selected /\ (~fetches \/ (r.result = "Ok" /\ readable /\ scraped.err = "Ok"))
                   THEN {"ok", "fail"} ELSE {"ok"} :
       \E err \in {IF ~selected THEN "Ok"
                   ELSE IF fetches /\ r.result # "Ok" THEN r.result
                   ELSE IF fetches /\ ~readable THEN "Transport"
                   ELSE IF scraped.err # "Ok" THEN scraped.err
                   ELSE IF path = "fail" THEN "Template"
                   ELSE "Ok"} :
       \E w \in {[wf EXCEPT !.next = @ + 1,
                            !.outputs = IF selected /\ err = "Ok"
                                        THEN Append(@, Output(t.url, t.name, scraped.suite))
                                        ELSE @,
                            !.written = IF selected /\ err = "Ok" THEN Append(@, t.name) ELSE @,
                            !.not_found = IF wf.next = Len(wf.tasks) /\ err = "Ok"
                                          THEN wf.problems.names ELSE @]} :
        /\ IF fetches THEN Exchanged(r, "GET", t.url)
           ELSE UNCHANGED <<sessVars, log>>
        /\ IF err # "Ok" THEN Finish(err) /\ wf' = w
           ELSE IF wf.next < Len(wf.tasks)
           THEN wf' = w /\ UNCHANGED <<pc, stack, result>>
           ELSE DownloadEnds(w)

\* download's filter and map on the task at wf.next: a task the problems name
\* gets the preset suite of the contest or else the suite extracted from its
\* page, and its path; the first error ends download; past the last task,
\* not_found is built and the loop over outputs begins
DownloadTask ==
    /\ pc = "download.task"
    /\ \E t \in {wf.tasks[wf.next]} :
       \E selected \in {named_by(wf.problems, t.name)} :
       \E preset \in {preset_suite(wf.contest)} :
       \E fetches \in {selected /\ ~preset.present} :
       \E net \in IF fetches THEN Answers0({200, 404}) ELSE {TransportError} :
       \E r \in {wfSend(t.url, {200}, net, "ok")} :
       \E readable \in IF fetches /\ r.result = "Ok" THEN BOOLEAN ELSE {TRUE} :
       \E page \in IF fetches /\ r.result = "Ok" /\ readable THEN DownloadTaskPages
                   ELSE {TaskPage(NoText, FALSE, NoSampleNodes)} :
       \E scraped \in {IF fetches THEN extract_as_suite(page) ELSE Scraped(preset.suite)} :
       \E path \in IF selected /\ (~fetches \/ (r.result = "Ok" /\ readable /\ scraped.err = "Ok"))
                   THEN {"ok", "fail"} ELSE {"ok"} :
       \E err \in {IF ~selected THEN "Ok"
                   ELSE IF fetches /\ r.result # "Ok" THEN r.result
                   ELSE IF fetches /\ ~readable THEN "Transport"
                   ELSE IF scraped.err # "Ok" THEN scraped.err
                   ELSE IF path = "fail" THEN "Template"
                   ELSE "Ok"} :
       \E w \in {[wf EXCEPT !.next = @ + 1,
                            !.outputs = IF selected /\ err = "Ok"
                                        THEN Append(@, Output(t.url, t.name, scraped.suite))
                                        ELSE @,
                            !.not_found = IF wf.next = Len(wf.tasks) /\ err = "Ok"
                                          THEN wf.problems.names ELSE @]} :
        /\ IF fetches THEN Exchanged(r, "GET", t.url)
           ELSE UNCHANGED <<sessVars, log>>
        /\ IF err # "Ok" THEN Finish(err) /\ wf' = w
           ELSE IF wf.next < Len(wf.tasks)
           THEN wf' = w /\ UNCHANGED <<pc, stack, result>>
           ELSE IF w.outputs = <<>> THEN DownloadEnds(w)
           ELSE wf' = w /\ pc' = "download.save" /\ UNCHANGED <<stack, result>>

\* download's loop over outputs, at the first output not yet saved:
\* suite.save, then not_found.remove_item_(&name); past the last, the end
DownloadSave ==
    /\ pc = "download.save"
    /\ \E o \in {wf.outputs[Len(wf.written) + 1]}, write \in {"ok", "fail"} :
       \E w \in {[wf EXCEPT !.written = Append(@, o.name),
                            !.not_found = remove_item_(@, o.name)]} :
        /\ UNCHANGED <<sessVars, log>>
        /\ IF write = "fail" THEN Finish("WriteFile") /\ wf' = wf
           ELSE IF Len(w.written) < Len(w.outputs)
           THEN wf' = w /\ UNCHANGED <<pc, stack, result>>
           ELSE DownloadEnds(w)

\* the problems of an invocation: none, and lists that repeat a name, name
\* no task, or name the tasks out of the page's order
ProblemLists ==
    {NoProblems} \cup
    {SomeProblems(names) :
        names \in {<<>>, <<"A">>, <<"A", "A">>, <<"B", "A">>, <<"C", "A", "C">>, <<"C", "B">>}}

InitDownload ==
    /\ StartedSession({SidCookie}, NoRobots)
    /\ \E contest \in {Abc(100), Numbered("Arc", 19)}, problems \in ProblemLists,
          open_browser \in BOOLEAN :
        wf = [NoWf EXCEPT !.kind = "download", !.credentials = "Some", !.contest = contest,
                          !.problems = problems, !.open_browser = open_browser]
    /\ pc = "tasks.first"
    /\ stack = <<"download">>
    /\ log = <<>>
    /\ result = "running"

NextDownload ==
    \/ TasksFirst
    \/ RegTop
    \/ LoginProbe
    \/ LoginGet
    \/ LoginPost
    \/ LoginCheck
    \/ RegToken
    \/ RegPost
    \/ TasksSecond
    \/ DownloadTask
    \/ DownloadSave

SpecDownload == InitDownload /\ [][NextDownload]_vars

-----------------------------------------------------------------------------
(* SpecPagination: the loops over the submissions listing, restore's and    *)
(* submit's                                                                  *)

InitPagination == InitRestore \/ InitSubmit

NextPagination == NextRestore \/ NextSubmit

SpecPagination == InitPagination /\ [][NextPagination]_vars

-----------------------------------------------------------------------------
(* SpecWorkflows: the five commands, each from its first request *)

InitWorkflows == InitLogin \/ InitParticipate \/ InitDownload \/ InitRestore \/ InitSubmit

NextWorkflows == NextSubmit \/ NextRestore \/ DownloadTask \/ DownloadSave

SpecWorkflows == InitWorkflows /\ [][NextWorkflows]_vars

-----------------------------------------------------------------------------
(* SpecResolve: one get(url).send() of a session, its base host and url     *)
(* string varied                                                            *)

\* the strings handed to get: relative and absolute, with and without a
\* query, the empty string
ResolveStrings ==
    RequestUrls \cup
    {<<>>, <<"/">>, <<"/", "public", "?", "q">>, <<"https://", "atcoder">>,
     <<"https://", "other", "/", "public", "?", "q">>}

\* a session value and the transport's answer to its request
SendInputs ==
    {[base |-> b, url |-> url, jar |-> j, net |-> net] :
        b \in {NoBase, BaseAtcoder, BaseLocal}, url \in ResolveStrings,
        j \in {NoJar, [present |-> TRUE, path |-> "cookies", inner |-> {SidCookie}]},
        net \in {TransportError} \cup
                {Response(status, NoSetCookie, NoLocation, UnreadableBody) : status \in {200, 404}}}

InitResolve == Called("send", SendInputs)

GetSend ==
    Returned("send",
             send(wf.input.base, NoRobots, wf.input.jar, NoFile, wf.input.url,
                  get(wf.input.url).acceptable, wf.input.net, "ok", Ord0))

NextResolve == GetSend

SpecResolve == InitResolve /\ [][NextResolve]_vars

-----------------------------------------------------------------------------
(* Claims about the session layer *)

\* C4: a request whose resolved path the ruleset cached for its host
\* disallows fails with ForbiddenByRobotsTxt and client.execute is not called
\* for it; a request that resolves and is allowed is handed to client.execute.
C4_RobotsCheck ==
    last.op = "request" =>
        /\ last.disallowed => (last.result = "ForbiddenByRobotsTxt" /\ ~last.executed)
        /\ (last.resolved /\ ~last.disallowed) => last.executed

C4_Witness ==
    /\ last.op = "request"
    /\ last.disallowed
    /\ last.result = "ForbiddenByRobotsTxt"
    /\ ~last.executed

\* C5: no two live sessions hold the same cookie file; an open of a path
\* another session holds returns a start-session error at once and leaves
\* the opener without a session; an open of a path nobody holds succeeds
\* (when the disk does not fail).
C5_ExclusiveLock ==
    /\ \A s1, s2 \in Sess :
        (s1 # s2 /\ jar[s1].present /\ jar[s2].present) => jar[s1].path # jar[s2].path
    /\ \A p \in Paths : lockHolder[p] # 0 => (jar[lockHolder[p]].present /\ jar[lockHolder[p]].path = p)
    /\ (last.op = "new" /\ last.held) => (last.result = "Start" /\ st[last.s] = "none")
    /\ (last.op = "new" /\ last.path # NoPath /\ ~last.held /\ last.io = "ok") =>
            (last.result = "Ok" /\ jar[last.s].path = last.path /\ lockHolder[last.path] = last.s)

C5_Witness ==
    /\ last.op = "new"
    /\ last.held
    /\ last.result = "Start"
    /\ \E s \in Sess : jar[s].present /\ jar[s].path = last.path /\ s # last.s

C7_FileIsSerialization ==
    \A s \in Sess :
        (st[s] = "ready" /\ jar[s].present) =>
            (files[jar[s].path].exists /\ files[jar[s].path].cells \in Serializations(jar[s].inner))

\* C7 amended: the same, except that a session opened on an existing empty
\* file holds the empty record set over the still empty file until its first
\* mutation.
C7_FileIsSerializationOrEmpty ==
    \A s \in Sess :
        (st[s] = "ready" /\ jar[s].present) =>
            /\ files[jar[s].path].exists
            /\ \/ files[jar[s].path].cells \in Serializations(jar[s].inner)
               \/ (files[jar[s].path].cells = <<>> /\ jar[s].inner = {} /\ fresh[s])

C7_Witness ==
    \E s \in Sess :
        /\ st[s] = "ready" /\ jar[s].present /\ ~fresh[s]
        /\ last.op = "clear_cookies" /\ last.s = s /\ last.result = "Ok"
        /\ files[jar[s].path].cells = BincodeSerialize(<<>>)

-----------------------------------------------------------------------------
(* Claims about login *)

GetLogin == <<"GET", UrlLogin>>
PostLogin == <<"POST", UrlLogin>>
GetSettings == <<"GET", UrlSettings>>
Cleared == <<"CLEAR", <<>>>>

\* C8 as stated: with supplied credentials there is one attempt at most, the
\* cookies are never cleared, and a probe after the login POST answered with
\* anything but 200 ends login with LoginOnTest (the cookie file's writes
\* succeeding).
C8_SuppliedCredentialsAsStated ==
    wf.credentials = "Some" =>
        /\ CountOf(log, GetLogin) <= 1
        /\ CountOf(log, PostLogin) <= 1
        /\ wf.cleared = 0
        /\ (wf.check \notin {0, 200} /\ result \notin CookieStoreErrors)
                => (pc = "done" /\ result = "LoginOnTest")

\* C8 amended: with supplied credentials there is one attempt at most and the
\* cookies are never cleared; a probe after the login POST answered 302 ends
\* login with LoginOnTest, one answered with another status than 200 and 302
\* ends it with the unexpected-status error.
C8_SuppliedCredentials ==
    wf.credentials = "Some" =>
        /\ CountOf(log, GetLogin) <= 1
        /\ CountOf(log, PostLogin) <= 1
        /\ wf.cleared = 0
        /\ (wf.check \notin {0, 200} /\ result \notin CookieStoreErrors)
                => /\ pc = "done"
                   /\ result = IF wf.check = 302 THEN "LoginOnTest" ELSE "UnexpectedStatusCode"

C8_Witness ==
    /\ wf.credentials = "Some"
    /\ wf.check = 302
    /\ pc = "done"
    /\ result = "LoginOnTest"
    /\ CountOf(log, PostLogin) = 1

\* C9: when login_if_not found a cookie and its probe returned 200, login
\* returns Ok without a GET or POST of /login and without clear_cookies; the
\* login page is requested only when the store was empty or the probe
\* returned 302.
C9_NoOpWhenLoggedIn ==
    /\ (wf.entered /\ wf.hadCookie /\ wf.probe0 = 200) =>
            /\ pc = "done" /\ result = "Ok"
            /\ CountOf(log, GetLogin) = 0 /\ CountOf(log, PostLogin) = 0
            /\ wf.attempts = 0 /\ wf.cleared = 0
    /\ (CountOf(log, GetLogin) > 0 \/ pc \in {"login.get", "login.post", "login.check"}) =>
            (wf.entered /\ (~wf.hadCookie \/ wf.probe0 = 302))

C9_Witness ==
    /\ wf.entered /\ wf.hadCookie /\ wf.probe0 = 200
    /\ pc = "done" /\ result = "Ok"
    /\ log = <<GetSettings>>

\* C10: under prompted credentials a clear_cookies lies between every login
\* POST and the next GET of /login, and when the loop goes round the jar is
\* empty and the file holds the serialization of the empty set; login
\* returns Ok only when the latest probe of /settings was answered 200.
C10_ClearBeforeRetry ==
    /\ wf.credentials = "None" =>
        /\ \A i, j \in 1..Len(log) :
              (i < j /\ log[i] = PostLogin /\ log[j] = GetLogin)
                  => \E k \in (i + 1)..(j - 1) : log[k] = Cleared
        /\ (pc = "login.get" /\ wf.attempts > 0) =>
              /\ wf.cleared = wf.attempts
              /\ jar[1].inner = {}
              /\ files[CookiePath] = File(BincodeSerialize(<<>>))
    /\ (pc = "done" /\ result = "Ok") => wf.lastProbe = 200

C10_Witness ==
    /\ wf.credentials = "None"
    /\ wf.cleared >= 1
    /\ CountOf(log, GetLogin) = 2
    /\ pc = "done" /\ result = "Ok"

-----------------------------------------------------------------------------
(* Claims about submit *)

PostSubmit == <<"POST", url_submit(wf.contest)>>

\* page p of the server's listing shows an accepted submission of the task
PageShowsAccepted(p) ==
    /\ wf.listing[p].wellFormed
    /\ \E i \in 1..Len(wf.listing[p].submissions) :
          /\ wf.listing[p].submissions[i].task_screen_name = wf.task_screen_name
          /\ wf.listing[p].submissions[i].is_ac

\* the listing, page 1 to the page count page 1 announces, shows one
ListingShowsAccepted ==
    /\ wf.decided
    /\ \E p \in 1..MaxPages :
          /\ (p = 1 \/ p <= wf.listing[1].num_pages)
          /\ PageShowsAccepted(p)

\* C1 as stated: whenever the server's listing of the user's submissions
\* shows an accepted submission of the requested task, submit issues no POST
\* to the submit URL and does not return Ok.
C1_AlreadyAcceptedAsStated ==
    ListingShowsAccepted =>
        /\ CountOf(log, PostSubmit) = 0
        /\ (pc = "done" => result \notin {"Ok", "OpenInBrowser"})

\* C1 amended: when submit checks for an accepted submission (not skipped,
\* not the practice contest, the contest active) and the listing shows one,
\* no POST to the submit URL is issued and submit does not return Ok; once a
\* fetched page shows one, submit has returned AlreadyAccepted.
C1_AlreadyAccepted ==
    /\ (wf.checks_if_accepted /\ ListingShowsAccepted) =>
          /\ CountOf(log, PostSubmit) = 0
          /\ (pc = "done" => result \notin {"Ok", "OpenInBrowser"})
    /\ (wf.checks_if_accepted /\ \E p \in 1..wf.extracted : PageShowsAccepted(p)) =>
          /\ pc = "done"
          /\ result = "AlreadyAccepted"
          /\ CountOf(log, PostSubmit) = 0

C1_Witness ==
    /\ wf.checks_if_accepted
    /\ wf.extracted = 2
    /\ PageShowsAccepted(2)
    /\ result = "AlreadyAccepted"
    /\ CountOf(log, PostSubmit) = 0

PostedLocationMatches ==
    /\ wf.post.location.present
    /\ IsPrefix(<<"/", "contests", "/">>, wf.post.location.value)
    /\ IsSuffix(<<"/", "submissions", "/", "me">>, wf.post.location.value)

PostedLocationReadable ==
    \A i \in 1..Len(wf.post.location.value) : wf.post.location.value[i] \notin NotVisibleAscii

\* C2 as stated: submit returns Ok only after one POST answered 302 with a
\* Location that starts with "/contests/" and ends with "/submissions/me";
\* an answer without Location, with another Location or with another status
\* ends submit with SubmissionRejected carrying the language id, the length
\* of the source, the status and the Location of the answer when it has one.
C2_SubmissionRejectedAsStated ==
    /\ (wf.kind = "submit" /\ pc = "done" /\ result = "Ok") =>
          /\ CountOf(log, PostSubmit) = 1
          /\ wf.post.answered /\ wf.post.status = 302
          /\ PostedLocationMatches
    /\ (wf.post.answered /\ (wf.post.status # 302 \/ ~PostedLocationMatches)) =>
          /\ pc = "done" /\ result = "SubmissionRejected"
          /\ wf.rejected = SubmissionRejected(wf.lang_id, wf.source_len, wf.post.status,
                                              wf.post.location)

\* C2 amended: submit returns Ok only after one POST answered 302 with a
\* readable Location that starts with "/contests/" and ends with
\* "/submissions/me".  Another status ends submit with SubmissionRejected
\* carrying the language id, the length of the source, the status and no
\* location, whatever the answer's headers; a 302 without Location likewise;
\* a 302 whose Location is not visible ASCII ends it with ReadHeader; a 302
\* with another readable Location ends it with SubmissionRejected carrying
\* that Location.
C2_SubmissionRejected ==
    /\ (wf.kind = "submit" /\ pc = "done" /\ result = "Ok") =>
          /\ CountOf(log, PostSubmit) = 1
          /\ wf.post.answered /\ wf.post.status = 302
          /\ PostedLocationMatches /\ PostedLocationReadable
    /\ wf.post.answered =>
          /\ pc = "done"
          /\ IF wf.post.status # 302 \/ ~wf.post.location.present
             THEN /\ result = "SubmissionRejected"
                  /\ wf.rejected = SubmissionRejected(wf.lang_id, wf.source_len,
                                                      wf.post.status, NoLocation)
             ELSE IF ~PostedLocationReadable THEN result = "ReadHeader"
             ELSE IF ~PostedLocationMatches
             THEN /\ result = "SubmissionRejected"
                  /\ wf.rejected = SubmissionRejected(wf.lang_id, wf.source_len,
                                                      wf.post.status, wf.post.location)
             ELSE result \in {"Ok", "OpenInBrowser"}

C2_Witness ==
    /\ pc = "done" /\ result = "SubmissionRejected"
    /\ wf.post.answered /\ wf.post.status = 302
    /\ wf.rejected.location.present
    /\ wf.rejected.len = 5

-----------------------------------------------------------------------------
(* Claims about restore *)

\* the first row of the page extracted last whose key is key, or 0
FirstRowOf(rows, key) ==
    IF \E i \in 1..Len(rows) : KeyOf(rows[i]) = key
    THEN CHOOSE i \in 1..Len(rows) :
            KeyOf(rows[i]) = key /\ \A j \in 1..(i - 1) : KeyOf(rows[j]) # key
    ELSE 0

\* C3: each page restore extracts is the next one of 1, 2, ..., N; a key
\* detail_urls already holds keeps its URL whatever the page's rows and
\* their accepted flags are, a key it does not hold gets the URL of the first
\* row of the page with that key, and the loop over the entries changes
\* nothing.
C3_FirstSeenWins ==
    [][/\ wf'.extracted # wf.extracted =>
            /\ wf'.extracted = wf.extracted + 1
            /\ log' = Append(log, <<"GET", url_submissions_me(wf.contest, wf'.extracted)>>)
            /\ \A key \in DOMAIN wf.detail_urls :
                  key \in DOMAIN wf'.detail_urls /\ wf'.detail_urls[key] = wf.detail_urls[key]
            /\ \A i \in 1..Len(wf'.submissions) : KeyOf(wf'.submissions[i]) \in DOMAIN wf'.detail_urls
            /\ \A key \in DOMAIN wf'.detail_urls \ DOMAIN wf.detail_urls :
                  /\ FirstRowOf(wf'.submissions, key) > 0
                  /\ wf'.detail_urls[key] =
                        wf'.submissions[FirstRowOf(wf'.submissions, key)].detail_url
       /\ wf'.extracted = wf.extracted => wf'.detail_urls = wf.detail_urls]_vars

\* a later page showed a submission of a key with another URL than the kept one
C3_Witness ==
    /\ wf.kind = "restore"
    /\ wf.extracted >= 2
    /\ \E i \in 1..Len(wf.submissions) :
          /\ KeyOf(wf.submissions[i]) \in DOMAIN wf.detail_urls
          /\ wf.submissions[i].is_ac
          /\ \A j \in 1..Len(wf.submissions) :
                KeyOf(wf.submissions[j]) = KeyOf(wf.submissions[i])
                    => wf.submissions[j].detail_url # wf.detail_urls[KeyOf(wf.submissions[i])]

-----------------------------------------------------------------------------
(* The status gate of Request::send (SpecSession)                           *)

\* the last operation was a send whose request reached the transport and was
\* answered with a response
SendAnswered == last.op = "request" /\ last.answered

\* the status of the answer passes the request's acceptable set
StatusAccepted == last.acceptable = {} \/ last.status \in last.acceptable

\* the defaults of get and post, unless the caller replaced the set
DefaultsKept ==
    (last.op = "request" /\ ~last.widened) =>
        last.acceptable = IF last.method = "GET" THEN {200} ELSE {302}

\* C11 as stated: every send performs exactly one exchange; it returns the
\* response iff the acceptable set is empty or contains the status, and
\* otherwise fails with the unexpected-status error carrying the expected set
\* and the actual status; get defaults to {200} and post to {302}.
C11_StatusGateAsStated ==
    /\ last.op = "request" => last.exchanges = 1
    /\ SendAnswered =>
          /\ last.result = "Ok" <=> StatusAccepted
          /\ last.result # "Ok" =>
                /\ last.result = "UnexpectedStatusCode"
                /\ last.error = UnexpectedStatusCode(last.acceptable, last.status)
    /\ DefaultsKept

\* C11: a send performs at most one exchange and never a second one: exactly
\* one when the URL resolves and robots.txt does not disallow its path, none
\* otherwise.  When the exchange was answered and the cookies of the answer
\* were stored without error, the send returns the response iff the
\* acceptable set is empty or contains the status, and otherwise fails with
\* the unexpected-status error carrying the expected set and the actual
\* status; an answer whose cookies cannot be parsed or saved fails with the
\* cookie-store error whatever its status.  get defaults to {200}, post to
\* {302}.
C11_StatusGate ==
    /\ last.op = "request" =>
          /\ last.exchanges <= 1
          /\ last.exchanges = 1 <=> (last.resolved /\ ~last.disallowed)
          /\ last.result = "Ok" => SendAnswered /\ StatusAccepted
          /\ last.error.raised <=> last.result = "UnexpectedStatusCode"
    /\ (SendAnswered /\ last.result \notin CookieStoreErrors) =>
          /\ last.result = "Ok" <=> StatusAccepted
          /\ last.result # "Ok" =>
                /\ last.result = "UnexpectedStatusCode"
                /\ last.error = UnexpectedStatusCode(last.acceptable, last.status)
    /\ DefaultsKept

\* an answer passed by an empty acceptable set although no default holds it
C11_Witness ==
    /\ SendAnswered
    /\ last.acceptable = {}
    /\ last.status = 404
    /\ last.result = "Ok"

-----------------------------------------------------------------------------
(* Registration (SpecRegister) *)

GetTop == <<"GET", url_top(wf.contest)>>
PostRegister == <<"POST", url_register(wf.contest)>>

\* the call of register_if_active_or_explicit is the explicit one
Explicit == wf.kind = "participate"

\* no request of login_if_not or try_logging_in was sent
NoLoginTraffic ==
    /\ CountOf(log, GetSettings) = 0
    /\ CountOf(log, GetLogin) = 0
    /\ CountOf(log, PostLogin) = 0

\* C12: when the contest's top page answers 302, register_if_active_or_explicit
\* fails with ContestNotFound, explicit or not, and neither login nor the
\* token fetch nor the registration POST was issued.
C12_ContestNotFound ==
    wf.top = 302 =>
        /\ pc = "done"
        /\ result = "ContestNotFound"
        /\ ~wf.entered
        /\ NoLoginTraffic
        /\ CountOf(log, GetTop) = 1
        /\ CountOf(log, PostRegister) = 0

\* an explicit participation whose contest's top page answered 302
C12_Witness ==
    /\ Explicit
    /\ wf.top = 302
    /\ result = "ContestNotFound"

\* C13: an explicit participation enters login_if_not whatever the phase and,
\* when it succeeds, has posted the registration form once; an implicit
\* registration fails with ContestNotBegun when the contest has not begun and
\* otherwise enters login and posts iff the contest is the practice contest
\* or the phase is Active, returning success without a POST for a finished
\* contest that is not the practice contest.  The form is never posted
\* before login_if_not returned success.
C13_RegistrationGating ==
    /\ wf.phase # "none" => wf.top = 200
    /\ CountOf(log, PostRegister) > 0 => wf.login_returned
    /\ CountOf(log, PostRegister) <= 1
    /\ (Explicit /\ wf.phase # "none") =>
          /\ wf.entered
          /\ wf.reg_returned <=> (pc = "done" /\ result = "Ok")
          /\ wf.reg_returned => CountOf(log, PostRegister) = 1
    /\ (~Explicit /\ wf.phase = "NotBegun") =>
          /\ pc = "done"
          /\ result = "ContestNotBegun"
          /\ ~wf.entered
          /\ CountOf(log, PostRegister) = 0
    /\ (~Explicit /\ wf.phase \in {"Active", "Finished"}) =>
          /\ wf.entered <=> (wf.contest = Practice \/ wf.phase = "Active")
          /\ ~wf.entered => wf.reg_returned /\ CountOf(log, PostRegister) = 0
          /\ (wf.entered /\ wf.reg_returned) => CountOf(log, PostRegister) = 1

\* an explicit participation in a contest that has not begun, registered
C13_Witness ==
    /\ Explicit
    /\ wf.phase = "NotBegun"
    /\ wf.login_returned
    /\ CountOf(log, PostRegister) = 1
    /\ pc = "done"
    /\ result = "Ok"

-----------------------------------------------------------------------------
(* Contest status (SpecStatus) *)

\* C14: for start < end, check_current_status returns exactly one of
\* NotBegun, Active and Finished: NotBegun iff now < start, carrying the
\* contest's name and the start time; Finished iff now > end; Active iff
\* start <= now <= end.
C14_StatusTotal ==
    (pc = "done" /\ wf.kind = "check_current_status") =>
        LET start == wf.input.duration.start
            end == wf.input.duration.end
            now == wf.input.now
        IN /\ wf.output.variant \in {"NotBegun", "Active", "Finished"}
           /\ wf.output.variant = "NotBegun" <=> now < start
           /\ wf.output.variant = "Finished" <=> now > end
           /\ wf.output.variant = "Active" <=> (start <= now /\ now <= end)
           /\ wf.output.variant = "NotBegun" =>
                 wf.output = NotBegun(wf.input.contest_name, start)

\* the status at the very start of a contest is Active
C14_Witness ==
    /\ pc = "done"
    /\ wf.kind = "check_current_status"
    /\ wf.input.now = wf.input.duration.start
    /\ wf.output = Active

-----------------------------------------------------------------------------
(* Contest identifiers (SpecContest) *)

\* s is a name in some letter case followed by three characters of digits
NameAndDigits(s, digits) ==
    /\ Len(s) >= 4
    /\ \A i \in (Len(s) - 2)..Len(s) : s[i] \in digits
    /\ \E r \in RecognizedNames : r[1] = to_lowercase(SubSeq(s, 1, Len(s) - 3))

\* the variant of the name s begins with
VariantNamed(s) ==
    (CHOOSE r \in RecognizedNames : r[1] = to_lowercase(SubSeq(s, 1, Len(s) - 3)))[2]

\* the n of 0..999 whose three digits s ends with
NumberWritten(s) == CHOOSE n \in 0..999 : Pad3(n) = SubSeq(s, Len(s) - 2, Len(s))

\* s without the white space around it
Trimmed(s) ==
    IF \A i \in 1..Len(s) : s[i] \in WhiteSpace THEN <<>>
    ELSE LET a == CHOOSE i \in 1..Len(s) :
                      s[i] \notin WhiteSpace /\ \A j \in 1..(i - 1) : s[j] \in WhiteSpace
             b == CHOOSE i \in 1..Len(s) :
                      s[i] \notin WhiteSpace /\ \A j \in (i + 1)..Len(s) : s[j] \in WhiteSpace
         IN SubSeq(s, a, b)

ParsedContest == pc = "done" /\ wf.kind = "AtcoderContest::new"

\* C15 as stated: a recognized name in any letter case followed by n as three
\* digits yields the name's variant carrying n, the two fixed names yield
\* their variants, and every other string yields Other carrying the string.
C15_ParsingAsStated ==
    ParsedContest =>
        wf.output =
            IF NameAndDigits(wf.input, AsciiDigits)
            THEN Numbered(VariantNamed(wf.input), NumberWritten(wf.input))
            ELSE IF wf.input = NamePractice THEN Practice
            ELSE IF wf.input = NameApg4b THEN Apg4b
            ELSE Other(wf.input)

\* C15: AtcoderContest::new is a function of the string.  A recognized name
\* in any letter case followed by n as three digits yields the name's
\* variant carrying n, also when white space surrounds it; with three
\* decimal digits that are not all ASCII the variant carries 0.  The two
\* fixed names, written exactly, yield their variants, and every other
\* string yields Other carrying the string as it was given.
C15_Parsing ==
    ParsedContest =>
        LET core == Trimmed(wf.input)
        IN /\ NameAndDigits(wf.input, AsciiDigits) =>
                 wf.output = Numbered(VariantNamed(wf.input), NumberWritten(wf.input))
           /\ wf.output =
                 IF NameAndDigits(core, AsciiDigits)
                 THEN Numbered(VariantNamed(core), NumberWritten(core))
                 ELSE IF NameAndDigits(core, DecimalDigits)
                 THEN Numbered(VariantNamed(core), 0)
                 ELSE IF wf.input = NamePractice THEN Practice
                 ELSE IF wf.input = NameApg4b THEN Apg4b
                 ELSE Other(wf.input)

\* a name in upper case with white space around it, parsed to its variant
C15_Witness ==
    /\ ParsedContest
    /\ wf.input = <<" ", "A", "G", "C", "0", "2", "1", "0x0A">>
    /\ wf.output = Numbered("Agc", 21)

-----------------------------------------------------------------------------
(* Timelimits of task pages (SpecTimelimit) *)

ExtractedTimelimit == pc = "done" /\ wf.kind = "extract_timelimit"

\* the text is a decimal number followed by sec or msec, as the claim's
\* examples are: the digits before and after the point and the unit
Written(text) ==
    LET b == RunEnd(text, 1, AsciiDigits)
        dot == b < Len(text) /\ text[b + 1] = "."
        c == IF dot THEN RunEnd(text, b + 2, AsciiDigits) ELSE b
        unit == SubSeq(text, c + 1, Len(text))
    IN [ok |-> /\ b \in 1..9
               /\ dot => c > b + 1
               /\ unit \in {<<"s", "e", "c">>, <<"m", "s", "e", "c">>},
        int |-> SubSeq(text, 1, b), frac |-> SubSeq(text, b + 2, c),
        m |-> unit = <<"m", "s", "e", "c">>]

\* the whole milliseconds of the written value, and the digits of it below
\* one millisecond
WrittenMillis(w) ==
    LET shift == IF w.m THEN 0 ELSE 3
        ds == w.int \o w.frac \o Zeros(shift)
    IN Numeral(SubSeq(ds, 1, Len(w.int) + shift))
WrittenBelowMilli(w) ==
    LET shift == IF w.m THEN 0 ELSE 3
        ds == w.int \o w.frac \o Zeros(shift)
    IN Numeral(SubSeq(ds, Len(w.int) + shift + 1, Len(ds)))

\* C16 as stated: the extracted duration equals the decimal value written in
\* the text, without rounding or loss, at least for "2sec" (2000 ms),
\* "4000msec" (4000 ms) and "0.0001sec" (0.1 ms), and the arithmetic never
\* leaves the range of u64.
C16_TimelimitExactAsStated ==
    ExtractedTimelimit =>
        /\ ~wf.output.overflow
        /\ wf.input = Chars2sec => wf.output = from_millis(<<"2", "0", "0", "0">>, FALSE)
        /\ wf.input = Chars4000msec => wf.output = from_millis(<<"4", "0", "0", "0">>, FALSE)
        /\ Written(wf.input).ok =>
              /\ wf.output.some
              /\ wf.output.millis = WrittenMillis(Written(wf.input))
              /\ WrittenBelowMilli(Written(wf.input)) = <<"0">>

\* what extract_timelimit does: with at most three digits after the point
\* the whole milliseconds of the written value, the part below a millisecond
\* being dropped; with more digits nothing; no operation leaves u64
C16_TimelimitAsExtracted ==
    ExtractedTimelimit =>
        /\ ~wf.output.overflow
        /\ Written(wf.input).ok =>
              /\ wf.output.some <=> Len(Written(wf.input).frac) <= 3
              /\ wf.output.some => wf.output.millis = WrittenMillis(Written(wf.input))

-----------------------------------------------------------------------------
(* Timelimits of the command line (SpecParseTimelimit) *)

ParsedTimelimit == pc = "done" /\ wf.kind = "parse_timelimit"

\* the parts of a string of the form digits(1..19)[.digits](m)s
TimelimitForm(s) ==
    LET b == RunEnd(s, 1, AsciiDigits)
        dot == b < Len(s) /\ s[b + 1] = "."
        c == IF dot THEN RunEnd(s, b + 2, AsciiDigits) ELSE b
        unit == SubSeq(s, c + 1, Len(s))
    IN [ok |-> b \in 1..19 /\ (dot => c > b + 1) /\ unit \in {<<"s">>, <<"m", "s">>},
        int |-> SubSeq(s, 1, b), frac |-> SubSeq(s, b + 2, c), m |-> unit = <<"m", "s">>]

\* the number the first n digits of ds followed by zeros write
RECURSIVE DigitsValue(_)
DigitsValue(ds) ==
    IF ds = <<>> THEN 0
    ELSE DigitsValue(SubSeq(ds, 1, Len(ds) - 1)) * 10 + DigitOf(ds[Len(ds)])
FirstDigits(ds, n) == DigitsValue(SubSeq(ds \o Zeros(n), 1, n))

\* C17: parse_timelimit accepts exactly the strings digits(1..19)[.digits](m)s.
\* For seconds the whole seconds are the integer part and the nanoseconds
\* the first nine digits of the fraction; for milliseconds the result is
\* integer / 1000 seconds and (integer mod 1000) ms plus the first six digits
\* of the fraction as nanoseconds ("0.5678ms" is 567800 ns, "1234.5678ms" is
\* 1 s 234567800 ns).  The nanoseconds are below 10^9, no value of the 32-bit
\* sums exceeds that, the integer part fits u64, and every other string is
\* rejected.
C17_ParseTimelimit ==
    ParsedTimelimit =>
        LET form == TimelimitForm(wf.input)
            int == Numeral(form.int)
        IN /\ wf.output.ok <=> form.ok
           /\ wf.output.ok =>
                 /\ wf.output.nanos < 1000000000
                 /\ wf.output.widest < 1000000000
                 /\ wf.output.fits
                 /\ ~form.m =>
                       /\ wf.output.secs = int
                       /\ wf.output.nanos = FirstDigits(form.frac, 9)
                 /\ form.m =>
                       /\ wf.output.secs = (IF Len(int) > 3 THEN SubSeq(int, 1, Len(int) - 3)
                                            ELSE <<"0">>)
                       /\ wf.output.nanos =
                             FirstDigits(SubSeq(Zeros(3) \o int, Len(int) + 1, Len(int) + 3)
                                         \o form.frac, 9)
           /\ wf.input = <<"0", ".", "5", "6", "7", "8", "m", "s">> =>
                 wf.output.secs = <<"0">> /\ wf.output.nanos = 567800
           /\ wf.input = <<"1", "2", "3", "4", ".", "5", "6", "7", "8", "m", "s">> =>
                 wf.output.secs = <<"1">> /\ wf.output.nanos = 234567800

\* "1234.5678ms" parsed to 1 s 234567800 ns
C17_Witness ==
    /\ ParsedTimelimit
    /\ wf.input = <<"1", "2", "3", "4", ".", "5", "6", "7", "8", "m", "s">>
    /\ wf.output.ok
    /\ wf.output.secs = <<"1">>
    /\ wf.output.nanos = 234567800

-----------------------------------------------------------------------------
(* Suites of task pages (SpecSuite) *)

ExtractedSuite == pc = "done" /\ wf.kind = "extract_as_suite"

\* the timelimit extract_timelimit finds on the page is zero
ZeroTimelimit(page) ==
    /\ page.text.present
    /\ extract_timelimit(page.text.value).some
    /\ extract_timelimit(page.text.value).millis = <<"0">>

\* C18: extract_as_suite returns Unsubmittable iff the extracted timelimit is
\* zero, whether or not the page has sample pairs or an interactive marker.
C18_ZeroIsUnsubmittable ==
    ExtractedSuite =>
        /\ ZeroTimelimit(wf.input) => wf.output = Scraped(Unsubmittable)
        /\ (wf.output.err = "Ok" /\ wf.output.suite.variant = "Unsubmittable") =>
              ZeroTimelimit(wf.input)

\* a page with a zero timelimit, an interactive marker and samples
C18_Witness ==
    /\ ExtractedSuite
    /\ ZeroTimelimit(wf.input)
    /\ wf.input.marker
    /\ wf.input.samples # NoSampleNodes
    /\ wf.output = Scraped(Unsubmittable)

-----------------------------------------------------------------------------
(* Claims about download *)

\* download got past its loop over outputs: every suite is saved and the
\* "Not found:" line is written or left out
DownloadReported ==
    pc = "done" /\ wf.kind = "download" /\ result \in {"Ok", "Browser"}

\* the names of the "Not found:" line, none when the line is left out
ReportedNames == IF wf.reported.present THEN wf.reported.names ELSE <<>>

\* name is the name of one of the tasks extracted from the tasks page
AmongTasks(name) == \E i \in DOMAIN wf.tasks : wf.tasks[i].name = name

C19_RepeatedNameSaved ==
    /\ DownloadReported
    /\ wf.problems.names = <<"A", "A">>
    /\ wf.written # <<>>
    /\ ~wf.reported.present

-----------------------------------------------------------------------------
(* Claims about restore's entries without a source path *)

\* the language id restore looks up for the entry key on the first page
LangIdOf(key) == extract_lang_id(wf.options, key[2]).id

\* the step wrote the "Ignoring" line of an entry
Ignores == wf.kind = "restore" /\ Len(wf'.warnings) = Len(wf.warnings) + 1

\* restore returned Ok(()) in the state the step leads to
RestoreReturnsOk == wf'.kind = "restore" /\ pc' = "done" /\ result' = "Ok"

\* C20: an entry of restore whose language id has no source path is passed
\* over with the "Ignoring" warning: no file is written for it, restore goes
\* on with the entries left or, after the last, returns Ok; no file is ever
\* written for an id without a source path; and when restore returns Ok
\* every entry the problems name was written or ignored and the count of the
\* "Saved N files." line is the number of files written.
C20_UnconfiguredSkipped ==
    [][/\ Ignores =>
            /\ LangIdOf(wf'.warnings[Len(wf'.warnings)]) \notin wf.src_paths
            /\ wf'.written = wf.written
            /\ \/ RestoreReturnsOk
               \/ /\ pc' = "restore.detail"
                  /\ wf'.todo = wf.todo \ {wf'.warnings[Len(wf'.warnings)]}
                  /\ wf'.todo # {}
       /\ wf'.kind = "restore" =>
            \A i \in DOMAIN wf'.written :
                /\ LangIdOf(wf'.written[i]) \in wf.src_paths
                /\ wf'.written[i] \notin Range(wf'.warnings)
       /\ RestoreReturnsOk =>
            /\ wf'.summary.present
            /\ wf'.summary.count = Len(wf'.written)
            /\ \A key \in DOMAIN wf'.detail_urls :
                  named_by(wf.problems, key[1])
                      => key \in Range(wf'.written) \cup Range(wf'.warnings)]_vars

\* restore returned Ok after it ignored one entry and wrote another
C20_Witness ==
    /\ wf.kind = "restore" /\ pc = "done" /\ result = "Ok"
    /\ Len(wf.warnings) >= 1
    /\ Len(wf.written) >= 1
    /\ wf.summary.count = Len(wf.written)

-----------------------------------------------------------------------------
(* Claims about the loops over the submissions listing (SpecPagination)     *)

\* the requests of page i of the listing the log holds
RequestsOfPage(l, i) == CountOf(l, <<"GET", url_submissions_me(wf.contest, i)>>)

\* the pages of the listing requested so far are 1..k, each requested once
PagesRequested(l, k) ==
    \A i \in 1..(LaterCount + 1) : RequestsOfPage(l, i) = (IF i <= k THEN 1 ELSE 0)

\* the loop over the listing is the workflow's
Paginates == wf.kind \in {"restore", "submit"}

\* the step ends the loop over the listing with every page looked at
ListingExhausted ==
    \/ pc = "restore.page" /\ (pc' = "restore.detail" \/ (pc' = "done" /\ result' = "Ok"))
    \/ pc = "submit.list" /\ (pc' = "submit.token" \/ (pc' = "done" /\ result' = "ReadFile"))

\* C21 as stated: the pages requested are 1..k in order, each once, for a
\* k that is at most the page count N read on page 1, k = N when the loop
\* ends with every page looked at, and N does not change after page 1.
C21_PaginationAsStated ==
    (Paginates /\ wf.extracted >= 1) =>
        \E k \in 0..wf.num_pages : PagesRequested(log, k)

\* C21 amended: the pages requested are 1..k in order, each once; once page
\* 1 is extracted with the page count N, k is at most N, or 1 when N is 0;
\* a loop that ends with every page looked at requested k = max(N, 1)
\* pages, submit's loop that ends with AlreadyAccepted requested the pages up
\* to the first that shows the accepted submission; the count submit keeps
\* is that of page 1, and no later page changes the count.
C21_Pagination ==
    [][Paginates =>
        /\ \E k \in 0..(LaterCount + 1) :
              /\ PagesRequested(log', k)
              /\ wf'.extracted <= k
              /\ wf'.extracted >= 1 => k <= (IF wf'.num_pages = 0 THEN 1 ELSE wf'.num_pages)
              /\ ListingExhausted => k = (IF wf'.num_pages = 0 THEN 1 ELSE wf'.num_pages)
              /\ (pc = "submit.list" /\ pc' = "done" /\ result' = "AlreadyAccepted") =>
                    /\ PageShowsAccepted(k)
                    /\ \A p \in 1..(k - 1) : ~PageShowsAccepted(p)
        /\ wf.extracted >= 1 => wf'.num_pages = wf.num_pages
        /\ (wf'.kind = "submit" /\ wf'.extracted >= 1) =>
              wf'.num_pages = wf'.listing[1].num_pages]_vars

\* restore looked at every page page 1 announced, the later pages
\* announcing more
C21_Witness ==
    /\ wf.kind = "restore"
    /\ pc = "restore.detail"
    /\ wf.num_pages = MaxPages
    /\ wf.extracted = MaxPages
    /\ LaterCount > wf.num_pages
    /\ PagesRequested(log, MaxPages)

\* page 1 announces no page
C21_NoPageAnnounced ==
    /\ Paginates
    /\ wf.extracted = 1
    /\ wf.num_pages = 0
    /\ PagesRequested(log, 1)

-----------------------------------------------------------------------------
(* Claims about submit's check for an accepted submission and the contest's *)
(* status (SpecSubmit)                                                       *)

\* submit requested a page of the submissions listing
ListingRequested == \E i \in 1..LaterCount : RequestsOfPage(log, i) > 0

\* skipping was not requested, the contest is not the practice contest and
\* the status computed from the tasks page is Active
CheckDue ==
    /\ ~wf.skip_checking_if_accepted
    /\ wf.contest # Practice
    /\ wf.status.variant = "Active"

\* submit read the source file and came to the request for the token
TokenNext == pc = "submit.token" \/ CountOf(log, <<"GET", wf.task_url>>) > 0

\* C22: a submit that found its task requests the submissions listing
\* exactly when skipping was not requested, the contest is not practice and
\* the status computed from the tasks page is Active; otherwise (skipping,
\* practice, or a finished contest) it requests no page of the listing and
\* goes on to the source file, the token and the POST; a submit that did not
\* come to its task requests none either.
C22_DuplicateCheckGate ==
    wf.kind = "submit" =>
        /\ ListingRequested => (wf.decided /\ CheckDue)
        /\ (wf.decided /\ CheckDue) => (pc = "submit.list" \/ RequestsOfPage(log, 1) = 1)
        /\ (wf.decided /\ ~CheckDue) =>
              /\ ~ListingRequested
              /\ wf.status.variant \in {"none", "Finished"}
              /\ TokenNext \/ (pc = "done" /\ result = "ReadFile")
        /\ CountOf(log, PostSubmit) > 0 => TokenNext

\* a submit to a finished contest posted its code without a look at the listing
C22_Witness ==
    /\ wf.kind = "submit"
    /\ wf.decided
    /\ wf.status.variant = "Finished"
    /\ ~ListingRequested
    /\ CountOf(log, PostSubmit) = 1

\* every request so far is one of fetch_tasks_page, the registration or the login
OnlyTasksPageTraffic ==
    \A i \in DOMAIN log :
        log[i] = Cleared \/
        log[i][2] \in {url_tasks(wf.contest), url_top(wf.contest), url_register(wf.contest),
                       UrlLogin, UrlSettings}

C23_SkippedUndetermined ==
    /\ wf.kind = "submit"
    /\ wf.skip_checking_if_accepted
    /\ wf.decided
    /\ wf.status = NoStatus

-----------------------------------------------------------------------------
(* Claims about errors in the workflows (SpecWorkflows)                     *)

\* the step sent a request and the send returned an error
SendFailed == last' # last /\ last'.op = "send" /\ last'.result # "Ok"

\* the step sent a request that was answered, within its acceptable set,
\* with another status than 200 or, for a POST, 302
AnsweredOtherwise ==
    /\ log' # log
    /\ last'.op = "send" /\ last'.result = "Ok"
    /\ last'.status # 200
    /\ ~(last'.method = "POST" /\ last'.status = 302)

C24_LoginTriedAgain ==
    /\ wf.credentials = "None"
    /\ wf.attempts = 2
    /\ CountOf(log, PostLogin) = 2

-----------------------------------------------------------------------------
(* Claims about fetch_tasks_page (SpecWorkflows)                            *)

GetTasks == <<"GET", url_tasks(wf.contest)>>

\* the workflow is one that begins with fetch_tasks_page
FetchesTasksPage == wf.kind \in {"submit", "download"}

\* the labels of register_if_active_or_explicit and of the login within it
RegistrationLabels ==
    {"reg.top", "reg.token", "reg.post", "login.probe", "login.get", "login.post", "login.check"}

\* C25: fetch_tasks_page requests the tasks URL twice at most and registers
\* once at most: a first answer of 200 is followed by no registration, a
\* first answer of 302 or 404 by one run of register_if_active_or_explicit
\* and a second GET; the second GET accepts 200 only, so any other answer
\* ends the workflow with UnexpectedStatusCode and no registration follows.
C25_TasksPageRegistersOnce ==
    [][FetchesTasksPage =>
        /\ CountOf(log', GetTasks) <= 2
        /\ CountOf(log', PostRegister) <= 1
        /\ (pc = "tasks.first" /\ last'.result = "Ok" /\ last'.status = 200) =>
              pc' \notin RegistrationLabels \cup {"tasks.second"}
        /\ (pc = "tasks.first" /\ last'.result = "Ok" /\ last'.status # 200) =>
              /\ last'.status \in {302, 404}
              /\ pc' = "reg.top"
        /\ (pc' \in RegistrationLabels /\ pc \notin RegistrationLabels) => pc = "tasks.first"
        /\ pc' = "tasks.second" => (pc \in RegistrationLabels /\ CountOf(log, GetTasks) = 1)
        /\ pc = "tasks.second" =>
              /\ pc' \notin RegistrationLabels \cup {"tasks.first", "tasks.second"}
              /\ (last'.executed /\ last'.status \notin {0, 200}) =>
                    (pc' = "done" /\ result' = "UnexpectedStatusCode")
              /\ CountOf(log', PostRegister) = CountOf(log, PostRegister)]_vars

\* the first GET was answered 404, the registration was posted, and the
\* second GET was answered 404 too
C25_Witness ==
    /\ FetchesTasksPage
    /\ CountOf(log, GetTasks) = 2
    /\ CountOf(log, PostRegister) = 1
    /\ pc = "done"
    /\ result = "UnexpectedStatusCode"
    /\ last.status = 404

-----------------------------------------------------------------------------
(* Claims about download's preset suites (SpecDownload)                     *)

\* download requested the page of the task of its output o
PageRequested(o) == CountOf(log, <<"GET", o.url>>) > 0

\* C26 as stated: the preset suite stands in for the scraping of the
\* combinations of contest and task that have an override only, so of two
\* tasks of different names that download collected for one contest, one at
\* least was scraped from its own page, and a task that was not scraped
\* has the preset suite of the contest.
C26_PresetPerTaskAsStated ==
    wf.kind = "download" =>
        /\ \A i \in DOMAIN wf.outputs :
              ~PageRequested(wf.outputs[i]) =>
                  /\ preset_suite(wf.contest).present
                  /\ wf.outputs[i].suite = preset_suite(wf.contest).suite
        /\ \A i, j \in DOMAIN wf.outputs :
              wf.outputs[i].name # wf.outputs[j].name =>
                  PageRequested(wf.outputs[i]) \/ PageRequested(wf.outputs[j])

\* what download does: the preset suite is the contest's, every task the
\* problems name gets it when the contest has one and no task page is then
\* requested; in a contest without one every task collected was scraped
C26_PresetPerContest ==
    wf.kind = "download" =>
        \A i \in DOMAIN wf.outputs :
            IF preset_suite(wf.contest).present
            THEN ~PageRequested(wf.outputs[i])
                 /\ wf.outputs[i].suite = preset_suite(wf.contest).suite
            ELSE PageRequested(wf.outputs[i])

-----------------------------------------------------------------------------
(* Claims about the login loop carried on (SpecLoginLive)                   *)

\* the credentials are prompted for
Interactive == wf.kind = "login" /\ wf.credentials = "None"

\* login returned Ok(()) after a probe of /settings answered 200
LoginSucceeded == pc = "done" /\ result = "Ok" /\ wf.lastProbe = 200

\* no request, extraction or prompt failed so far
NoErrorSoFar == result \in {"running", "Ok"}

\* the server has rejected fewer attempts than the model lets login make
AcceptsInTime == wf.cleared < MaxAttempts

-----------------------------------------------------------------------------
(* Claims about the capture of cookies (SpecCookies)                        *)

\* the step is a request of session s that the server answered
AnsweredRequest(s) == last'.op = "request" /\ last'.s = s /\ last'.answered

\* the status of the answer is outside the request's acceptable set
StatusRefused(l) == l.acceptable # {} /\ l.status \notin l.acceptable

\* the cookie the i-th Set-Cookie string of a header stands for
Captured(setcookie, i) == CookieParse(setcookie.values[i]).cookie

\* every string of the header parses
AllParse(setcookie) == \A i \in DOMAIN setcookie.values : CookieParse(setcookie.values[i]).ok

\* inner holds the header's cookies, a later one of a name before an earlier
\* one, and beside them what before held under other names
MergedInto(before, setcookie, inner) ==
    /\ \A i \in DOMAIN setcookie.values :
          (\A k \in (i + 1)..Len(setcookie.values) :
               Captured(setcookie, k).name # Captured(setcookie, i).name)
          => Captured(setcookie, i) \in inner
    /\ \A c \in inner :
          \/ \E i \in DOMAIN setcookie.values : c = Captured(setcookie, i)
          \/ c \in before
    /\ \A c \in before :
          (\A i \in DOMAIN setcookie.values : Captured(setcookie, i).name # c.name) => c \in inner

\* C28: the cookies of a response are captured before its status is
\* validated: when an answer carries Set-Cookie and its status is outside the
\* acceptable set, its cookies are merged into the jar, and the unexpected
\* status is returned only with the merged jar written to the file (a failed
\* parse or write is returned in its place); an answer without Set-Cookie
\* leaves the jar and the file as they were.
C28_CapturedBeforeValidation ==
    [][\A s \in Sess : (AnsweredRequest(s) /\ jar[s].present) =>
          /\ (last'.setcookie.present /\ StatusRefused(last')) =>
                /\ last'.result \in {"UnexpectedStatusCode", "FileIo", "ParseCookieFromUrl"}
                /\ AllParse(last'.setcookie) =>
                      MergedInto(jar[s].inner, last'.setcookie, jar'[s].inner)
                /\ last'.result = "UnexpectedStatusCode" =>
                      /\ AllParse(last'.setcookie)
                      /\ files'[jar[s].path].cells \in Serializations(jar'[s].inner)
          /\ ~last'.setcookie.present => (jar'[s] = jar[s] /\ files' = files)]_vars

\* a request answered 404 with two Set-Cookie strings returned the unexpected
\* status, both cookies being in the jar and in the file
C28_Witness ==
    /\ last.op = "request" /\ last.answered
    /\ last.result = "UnexpectedStatusCode"
    /\ last.status = 404
    /\ last.setcookie = SetCookie(<<FooV1, SidV1>>)
    /\ jar[last.s].present
    /\ Cardinality(jar[last.s].inner) = 2
    /\ files[jar[last.s].path].cells \in Serializations(jar[last.s].inner)

-----------------------------------------------------------------------------
(* Claims about the Cookie header of a request (SpecSession)                *)

\* the jar of session s holds only what the answer of its last request, sent
\* to last.host with an empty Cookie header, carried
HoldsOnlyFromLastHost(s) ==
    /\ last.op = "request" /\ last.s = s /\ last.answered
    /\ last.cookies = {}
    /\ jar[s].present

\* the step sends a request of session s to the transport
SendsRequest(s) == last'.op = "request" /\ last'.s = s /\ last'.executed

\* C29 as stated: a request carries the cookies stored for its host only, so
\* a session whose jar holds nothing but cookies captured from one host sends
\* no cookie to another host.
C29_CookiesOfHostAsStated ==
    [][\A s \in Sess : (HoldsOnlyFromLastHost(s) /\ SendsRequest(s) /\ last'.host # last.host) =>
          last'.cookies = {}]_vars

\* what try_request does: the Cookie header of a request is the name and the
\* value of every cookie of the jar, whatever the host of the request and
\* the host each cookie came from
C29_WholeJarAttached ==
    [][\A s \in Sess : SendsRequest(s) =>
          last'.cookies = IF jar[s].present
                          THEN {<<c.name, c.value>> : c \in jar[s].inner} ELSE {}]_vars

-----------------------------------------------------------------------------
(* Claims about the identity of a cookie record (SpecCookies)               *)

\* the key the records are said to be kept under (the model's cookies carry
\* no path)
RecordKey(c) == <<c.name, c.domain>>

\* C30 as stated: no two records of a jar have the same key, and capturing
\* the cookies of an answer keeps every record whose key none of them has.
C30_KeyedRecordsAsStated ==
    [][\A s \in Sess : (AnsweredRequest(s) /\ jar[s].present /\ AllParse(last'.setcookie)) =>
          /\ \A c, d \in jar'[s].inner : RecordKey(c) = RecordKey(d) => c = d
          /\ \A c \in jar[s].inner :
                (\A i \in DOMAIN last'.setcookie.values :
                     RecordKey(Captured(last'.setcookie, i)) # RecordKey(c))
                => c \in jar'[s].inner]_vars

\* what CookieJar::add keeps: one record per name, whatever its domain
C30_OneRecordPerName ==
    \A s \in Sess : \A c, d \in jar[s].inner : c.name = d.name => c = d

-----------------------------------------------------------------------------
(* Claims about the robots.txt cache (SpecSession)                          *)

\* session s has fetched the ruleset of host h: HttpSession::new requests
\* /robots.txt of the base host, and no other code requests a ruleset
FetchedFor(s, h) == base[s].present /\ h = base[s].host

\* C31 as stated: the ruleset of a host is fetched the first time a request
\* targets the host, so every request a session sends goes to a host whose
\* ruleset the session has fetched.
C31_FetchedOnFirstRequestAsStated ==
    [][\A s \in Sess : SendsRequest(s) => FetchedFor(s, last'.host)]_vars

\* what the code does: the cache of a session is filled while the session
\* is constructed, with at most the entry of the base host, and never
\* changes while the session is in use
C31_FilledAtConstruction ==
    [][\A s \in Sess :
          /\ (st[s] = "ready" /\ st'[s] # "none") => robots_txts'[s] = robots_txts[s]
          /\ \A h \in HostNames : robots_txts'[s][h].cached => FetchedFor(s, h)']_vars

-----------------------------------------------------------------------------
(* Claims about the resolution of URLs (SpecResolve)                        *)

SendReturned == pc = "done" /\ wf.kind = "send"

\* the string starts with '/'
StartsWithSlash(str) == Len(str) > 0 /\ str[1] = "/"

\* the string starts with a scheme
StartsWithScheme(str) == Len(str) > 0 /\ str[1] \in Schemes

\* the URL is scheme://host[:port] of the base followed by the string
BaseThenString(u, b, str) ==
    /\ u.ok
    /\ u.scheme = (IF b.https THEN "https://" ELSE "http://")
    /\ u.host = b.host
    /\ u.port = b.port
    /\ str = (IF u.query = <<>> THEN u.path ELSE u.path \o <<"?">> \o u.query)

\* C32: with a base host a string starting with '/' resolves to
\* scheme://host[:port] of the base followed by the string, and any other
\* string is parsed as it is; without a base host every string is parsed as
\* it is, so an absolute URL resolves to itself and a relative string does
\* not resolve; a request whose string does not resolve fails with the
\* URL-parse error at send, no exchange being made and the jar left alone.
C32_UrlResolution ==
    SendReturned =>
        /\ IF wf.input.base.present /\ StartsWithSlash(wf.input.url)
           THEN BaseThenString(wf.output.url, wf.input.base, wf.input.url)
           ELSE wf.output.url = UrlParse(wf.input.url)
        /\ (~wf.input.base.present /\ ~StartsWithScheme(wf.input.url)) => ~wf.output.url.ok
        /\ wf.output.url.ok <=> wf.output.executed
        /\ ~wf.output.url.ok =>
              /\ wf.output.result = "ParseUrl"
              /\ wf.output.cookies = {}
              /\ wf.output.jar = wf.input.jar /\ wf.output.file = NoFile

\* with a base host, a relative string without '/' in front failed to resolve
C32_Witness ==
    /\ SendReturned
    /\ wf.input.base = BaseLocal
    /\ wf.input.url = <<"public">>
    /\ wf.output.result = "ParseUrl" /\ ~wf.output.executed

\* with a base host, an absolute URL of another host was requested as it is
C32_AbsoluteKept ==
    /\ SendReturned
    /\ wf.input.base = BaseLocal
    /\ wf.input.url = <<"https://", "atcoder", "/", "sensitive">>
    /\ wf.output.url.host = "atcoder" /\ wf.output.executed

\* with a base host with a port, a string starting with '/' was requested
\* from the base
C32_Prefixed ==
    /\ SendReturned
    /\ wf.input.base = BaseLocal
    /\ wf.input.url = <<"/", "public", "?", "q">>
    /\ wf.output.url.host = "other" /\ wf.output.url.port = "2000" /\ wf.output.executed

-----------------------------------------------------------------------------
(* Claims about the samples of a task page (SpecSuite)                      *)

\* the timelimit extract_timelimit finds on the page, if any
TimelimitOf(page) ==
    IF page.text.present THEN extract_timelimit(page.text.value) ELSE NoTimelimit

\* the page has a timelimit that is not zero
NonZeroTimelimit(page) == TimelimitOf(page).some /\ TimelimitOf(page).millis # <<"0">>

\* no strategy yields samples on the page, which has no interactive marker
NoStrategyYields(page) ==
    /\ ~page.marker
    /\ \A k \in 1..NumStrategies : ~try_extract_samples(FALSE, page.samples[k]).some

\* C33 as stated: on a page where no sample strategy yields a result the
\* suite extraction reports an extraction error.
C33_ExhaustionIsErrorAsStated ==
    (ExtractedSuite /\ NoStrategyYields(wf.input)) => wf.output = ScrapeError

\* C33: the suite extraction reports the extraction error exactly when no
\* timelimit can be extracted; on a page with a timelimit that is not zero
\* where no sample strategy yields a result it returns a Simple suite with
\* that timelimit and no cases.
C33_ErrorIffNoTimelimit ==
    ExtractedSuite =>
        /\ (wf.output = ScrapeError) <=> ~TimelimitOf(wf.input).some
        /\ (NonZeroTimelimit(wf.input) /\ NoStrategyYields(wf.input)) =>
              wf.output = Scraped(SimpleSuite(TimelimitOf(wf.input).millis, <<>>))

\* a page with a timelimit of 2 s whose strategies find sample nodes, none
\* yielding, was extracted as a suite without cases
C33_Witness ==
    /\ ExtractedSuite
    /\ NonZeroTimelimit(wf.input)
    /\ NoStrategyYields(wf.input)
    /\ wf.input.samples[1] # <<>>
    /\ wf.output.err = "Ok" /\ wf.output.suite.variant = "Simple" /\ wf.output.suite.cases = <<>>


\* strategy k yields samples on a page without interactive marker
Yields(page, k) == try_extract_samples(FALSE, page.samples[k]).some

\* the first strategy that yields, in the order the strategies are chained
FirstYielding(page) ==
    CHOOSE k \in 1..NumStrategies : Yields(page, k) /\ \A j \in 1..(k - 1) : ~Yields(page, j)

\* C34: on a page with a timelimit that is not zero the suite extracted is
\* Interactive iff the page has an interactive marker, whatever sample nodes
\* it has, and otherwise it is the Simple suite of that timelimit whose cases
\* are what the first strategy that yields, in the order 1 to 8, yields, and
\* which has no cases when no strategy yields.
C34_FirstStrategyWins ==
    (ExtractedSuite /\ NonZeroTimelimit(wf.input)) =>
        /\ wf.output.err = "Ok"
        /\ (wf.output.suite.variant = "Interactive") <=> wf.input.marker
        /\ wf.input.marker => wf.output.suite = InteractiveSuite(TimelimitOf(wf.input).millis)
        /\ ~wf.input.marker =>
              wf.output.suite =
                  SimpleSuite(TimelimitOf(wf.input).millis,
                              IF \E k \in 1..NumStrategies : Yields(wf.input, k)
                              THEN try_extract_samples(FALSE, wf.input.samples[FirstYielding(wf.input)]).samples
                              ELSE <<>>)

\* the first strategy found sample nodes and yielded nothing, the second and
\* the last yielded different samples, and the cases are those of the second
C34_Witness ==
    /\ ExtractedSuite
    /\ ~wf.input.marker
    /\ wf.input.samples[1] # <<>> /\ ~Yields(wf.input, 1)
    /\ Yields(wf.input, 2) /\ Yields(wf.input, NumStrategies)
    /\ wf.output.suite.variant = "Simple"
    /\ Len(wf.output.suite.cases) = 2
    /\ try_extract_samples(FALSE, wf.input.samples[NumStrategies]).samples = <<SamplePair>>

\* a page with an interactive marker whose first strategy would yield
\* samples was extracted as an Interactive suite
C34_MarkerBeforeSamples ==
    /\ ExtractedSuite
    /\ wf.input.marker
    /\ NonZeroTimelimit(wf.input)
    /\ Yields(wf.input, 1)
    /\ wf.output.suite.variant = "Interactive" /\ wf.output.suite.cases = <<>>


\* the text fails the validity check: it has a character that is not ASCII or
\* a whitespace other than space and newline, or it starts with a space or a
\* newline without being exactly one newline
FailsValidity(text) ==
    \/ \E i \in DOMAIN text : text[i] \notin AsciiChars
    \/ \E i \in DOMAIN text : text[i] \in AsciiWhiteSpace \ {" ", "0x0A"}
    \/ /\ Len(text) > 0 /\ text[1] \in {" ", "0x0A"}
       /\ text # <<"0x0A">>

\* the paired samples of strategy k: what the loop over the nodes pairs, none
\* when a heading's number did not parse
PairedBy(page, k) ==
    LET scanned == scan_nodes(page.samples[k], ScanStart)
    IN IF scanned.failed THEN <<>> ELSE pairs_from(scanned.inputs, scanned.outputs, 1)

\* a paired sample of strategy k has a text that fails the validity check
HasInvalidPair(page, k) ==
    \E i \in DOMAIN PairedBy(page, k) :
        FailsValidity(PairedBy(page, k)[i][1]) \/ FailsValidity(PairedBy(page, k)[i][2])

\* strategy k has paired samples and none of their texts fails
Usable(page, k) == PairedBy(page, k) # <<>> /\ ~HasInvalidPair(page, k)

\* C35: a strategy one of whose paired samples has an input or an output
\* that fails the validity check yields nothing, its valid samples included,
\* and the next strategy is tried: the cases of the suite are all the paired
\* samples of the first strategy in order that has some and has no failing
\* text, and there are none when no strategy is such.
C35_InvalidTextDiscardsStrategy ==
    (ExtractedSuite /\ NonZeroTimelimit(wf.input) /\ ~wf.input.marker) =>
        /\ \A k \in 1..NumStrategies :
              (HasInvalidPair(wf.input, k) /\ \A j \in 1..(k - 1) : ~Usable(wf.input, j)) =>
                  \/ \E j \in (k + 1)..NumStrategies :
                        Usable(wf.input, j) /\ wf.output.suite.cases = PairedBy(wf.input, j)
                  \/ wf.output.suite.cases = <<>>
        /\ \A k \in 1..NumStrategies :
              (Usable(wf.input, k) /\ \A j \in 1..(k - 1) : ~Usable(wf.input, j)) =>
                  wf.output.suite.cases = PairedBy(wf.input, k)
        /\ (\A k \in 1..NumStrategies : ~Usable(wf.input, k)) => wf.output.suite.cases = <<>>

\* the first strategy paired a valid sample and one whose input starts with
\* a space; the cases are those of the second strategy, the valid sample of
\* the first not among them
C35_Witness ==
    /\ ExtractedSuite
    /\ ~wf.input.marker
    /\ Len(PairedBy(wf.input, 1)) = 2
    /\ ~FailsValidity(PairedBy(wf.input, 1)[1][1]) /\ ~FailsValidity(PairedBy(wf.input, 1)[1][2])
    /\ FailsValidity(PairedBy(wf.input, 1)[2][1])
    /\ Usable(wf.input, 2)
    /\ wf.output.suite.cases = PairedBy(wf.input, 2)
    /\ \A i \in DOMAIN wf.output.suite.cases : wf.output.suite.cases[i] # PairedBy(wf.input, 1)[1]


\* the two maps the loop over the nodes of strategy k fills
BlocksOf(page, k) == scan_nodes(page.samples[k], ScanStart)

\* the sample numbers that have an input block and an output block
NumbersWithBoth(blocks) ==
    {i \in 1..MaxSample : blocks.inputs[i].present /\ blocks.outputs[i].present}

\* text t is the block's text ended with a newline: the text itself when it
\* ends with one, and the text followed by one newline otherwise
EndedWithNewline(t, block) ==
    /\ Len(t) > 0 /\ t[Len(t)] = "0x0A"
    /\ IF Len(block) > 0 /\ block[Len(block)] = "0x0A"
       THEN t = block
       ELSE t = block \o <<"0x0A">>

\* C36: the samples a strategy yields are one pair for each sample number
\* that has both an input block and an output block, in the order of the
\* numbers, numbers with one block only being left out; each text of a pair
\* is the block's text, followed by one newline when it did not end with one.
C36_PairingByNumber ==
    (ExtractedSuite /\ NonZeroTimelimit(wf.input) /\ ~wf.input.marker
        /\ wf.output.suite.cases # <<>>) =>
        LET blocks == BlocksOf(wf.input, FirstYielding(wf.input))
            cases == wf.output.suite.cases
        IN /\ Len(cases) = Cardinality(NumbersWithBoth(blocks))
           /\ \E f \in [DOMAIN cases -> NumbersWithBoth(blocks)] :
                 /\ \A a, b \in DOMAIN cases : a < b => f[a] < f[b]
                 /\ \A m \in DOMAIN cases :
                       /\ EndedWithNewline(cases[m][1], blocks.inputs[f[m]].value)
                       /\ EndedWithNewline(cases[m][2], blocks.outputs[f[m]].value)

\* the nodes of the first strategy began with the output of sample 2 and the
\* cases are sample 1, then sample 2
C36_Witness ==
    /\ ExtractedSuite
    /\ ~wf.input.marker
    /\ Len(wf.input.samples[1]) > 0
    /\ wf.input.samples[1][1] = H3("out", 2)
    /\ wf.output.suite.cases = <<<<TextIn1, TextOut1>>, <<TextIn2, TextOut2>>>>

\* an input without output was left out
C36_Unpaired ==
    /\ ExtractedSuite
    /\ ~wf.input.marker
    /\ BlocksOf(wf.input, 1).inputs[2].present /\ ~BlocksOf(wf.input, 1).outputs[2].present
    /\ wf.output.suite.cases = <<SamplePair>>

\* a newline was appended to a text without one and to an empty text
C36_NewlineAppended ==
    /\ ExtractedSuite
    /\ ~wf.input.marker
    /\ BlocksOf(wf.input, 1).inputs[1] = SomeText(<<"1">>)
    /\ BlocksOf(wf.input, 1).outputs[1] = SomeText(<<>>)
    /\ wf.output.suite.cases = <<<<<<"1", "0x0A">>, <<"0x0A">>>>>>

-----------------------------------------------------------------------------
(* Claims about what download persists (SpecDownload)                       *)

\* task i of the tasks page is one download was asked for
Selected(i) == named_by(wf.problems, wf.tasks[i].name)

\* the tasks asked for, in the order of the tasks page
SelectedTasks == SelectSeq(wf.tasks, LAMBDA t : named_by(wf.problems, t.name))

\* download returned an error other than a failed save or a failed browser
FailedBeforeSaving ==
    /\ pc = "done" /\ wf.kind = "download"
    /\ result \notin {"Ok", "Browser", "WriteFile"}

\* C37: download saves the first suite only after every selected task was
\* obtained (its page fetched and extracted, unless the contest has a preset
\* suite), and a download that fails while fetching or extracting a task, or
\* earlier, returns the error with no suite written and no browser opened.
C37_NothingSavedOnFailure ==
    wf.kind = "download" =>
        /\ (wf.written # <<>> \/ wf.opened # <<>>) =>
              /\ wf.next = Len(wf.tasks) + 1
              /\ FieldOf(wf.outputs, "name") = FieldOf(SelectedTasks, "name")
              /\ \A i \in DOMAIN wf.tasks :
                    (Selected(i) /\ ~preset_suite(wf.contest).present) =>
                        CountOf(log, <<"GET", wf.tasks[i].url>>) = 1
        /\ FailedBeforeSaving => (wf.written = <<>> /\ wf.opened = <<>>)

\* of two selected tasks the first was obtained and the second failed: the
\* error was returned with nothing written and no browser opened, though
\* one was asked for
C37_Witness ==
    /\ FailedBeforeSaving
    /\ Len(SelectedTasks) = 2
    /\ Len(wf.outputs) = 1
    /\ wf.next = 3
    /\ wf.open_browser
    /\ wf.written = <<>> /\ wf.opened = <<>>


-----------------------------------------------------------------------------
(* Claims about the construction of a session (SpecConstruction)          *)

\* the step is one pass of the robots.txt loop of session 1's construction
ConstructionStep == st[1] = "robots" /\ last'.op = "robots" /\ last'.s = 1

\* the construction returned the session / what its cache holds for the base host
ConstructionReturned == st'[1] = "ready"
ConstructionFailed == st'[1] = "none" /\ last'.result = "Start"
CachedForBase == robots_txts'[1][base[1].host]
NothingCached == robots_txts'[1] = NoRobots

\* C38 as stated: every pass of the loop issues exactly one request; the
\* construction ends at the first answer that is 200, with the body cached
\* under the base host, or 404 or a redirect without Location, with nothing
\* cached; any other status fails it with a start-session error.
C38_ConstructionEndsAsStated ==
    [][ConstructionStep =>
          /\ last'.exchanges = RobotsRequests(1) + 1
          /\ (last'.answered /\ last'.status = 200) =>
                (ConstructionReturned /\ CachedForBase.cached)
          /\ (last'.answered /\ last'.status = 404) =>
                (ConstructionReturned /\ NothingCached)
          /\ (last'.answered /\ last'.status \in {301, 302} /\ st'[1] # "robots") =>
                (ConstructionReturned /\ NothingCached)
          /\ (last'.answered /\ last'.status \notin {200, 301, 302, 404}) =>
                ConstructionFailed]_vars

\* C38: a construction with a base host whose server answers finitely many
\* redirects for /robots.txt ends.  Every pass of its loop whose URL resolves
\* issues exactly one request, and a Location that does not resolve fails the
\* construction without a request.  When the request is answered and the
\* cookies of the answer are stored, the construction goes on only after a
\* 301 or 302 with a Location; it returns the session at a 200 whose body can
\* be read, the body cached under the base host, at a 404 and at a redirect
\* without Location, nothing cached; it fails with a start-session error at
\* a 200 whose body cannot be read and at every other status.  An answer
\* whose cookies cannot be stored, and a request that is not answered, fail
\* it with a start-session error as well.
C38_ConstructionEnds ==
    /\ [][ConstructionStep =>
          /\ last'.exchanges = RobotsRequests(1) + (IF last'.resolved THEN 1 ELSE 0)
          /\ last'.exchanges <= MaxRedirects + 1
          /\ ~last'.resolved => (ConstructionFailed /\ last'.cause = "ParseUrl")
          /\ (last'.resolved /\ ~last'.answered) =>
                (ConstructionFailed /\ last'.cause = "Transport")
          /\ st'[1] = "robots" =>
                (last'.answered /\ last'.status \in {301, 302} /\ pending'[1] # <<>>)
          /\ (last'.answered /\ last'.cause \notin CookieStoreErrors) =>
                /\ last'.status = 200 =>
                      \/ ConstructionReturned /\ CachedForBase.cached
                      \/ ConstructionFailed /\ last'.cause = "ReadBody" /\ NothingCached
                /\ last'.status = 404 => (ConstructionReturned /\ NothingCached)
                /\ last'.status \in {301, 302} =>
                      (st'[1] \in {"robots", "ready"} /\ NothingCached)
                /\ last'.status \notin {200, 301, 302, 404} =>
                      (ConstructionFailed /\ last'.cause = "UnexpectedStatusCode")
          /\ (last'.answered /\ last'.cause \in CookieStoreErrors) => ConstructionFailed]_vars
    /\ (st[1] = "robots") ~> (st[1] # "robots")

\* a construction that followed as many redirects as the server may answer
\* returned with the third answer's body cached under the base host
C38_Witness ==
    /\ last.op = "robots" /\ last.exchanges = MaxRedirects + 1
    /\ last.status = 200
    /\ st[1] = "ready"
    /\ robots_txts[1][base[1].host].cached

\* the construction reached its final match
ReachedFinalMatch == last.op = "robots" /\ last.arm # "none"

\* C39: the unreachable!() arm of the construction's final match is never
\* taken: a send that returned its response with a status other than 301 and
\* 302 comes to the match, and whenever the match is reached the status is
\* 200 or 404 and the arm is that of 200 or that of 404; an answer of any
\* other status is refused by the send and never comes to the match.
C39_UnreachableArm ==
    /\ last.result # "Panic"
    /\ (last.op = "robots" /\ last.result = "Ok" /\ last.status \notin {301, 302}) =>
          ReachedFinalMatch
    /\ ReachedFinalMatch =>
          /\ last.answered
          /\ last.status \in {200, 404}
          /\ last.arm = (IF last.status = 200 THEN "insert" ELSE "nothing")
    /\ (last.op = "robots" /\ last.answered /\ last.status \notin {200, 301, 302, 404}) =>
          (~ReachedFinalMatch /\ last.result = "Start")

\* the match reached with 404 after one redirect
C39_Witness ==
    /\ ReachedFinalMatch
    /\ last.exchanges = 2
    /\ last.status = 404
    /\ last.arm = "nothing"
    /\ st[1] = "ready"

\* an answer of status 500 was refused before the match
C39_Refused ==
    /\ last.op = "robots" /\ last.answered
    /\ last.status = 500
    /\ last.cause = "UnexpectedStatusCode"
    /\ ~ReachedFinalMatch

=============================================================================
